---- MODULE Spec2Model ----
(***************************************************************************)
(* Attendance app: the face-liveness capture flow and the stores.          *)
(*                                                                         *)
(* The repository holds two implementations of the FaceLiveness screen:    *)
(*   variant "auto"   : src/src/screens/FaceLivenessScreen.tsx             *)
(*                      (automatic play-through of the challenges)         *)
(*   variant "manual" : src/src/screens/ClassesScreen.tsx, lines 282-end   *)
(*                      (one tap per challenge, "Try Again" on error)      *)
(* One screen instance is modelled from its mount on.  React state is a    *)
(* record whose fields carry the names of the useState variables.  Every   *)
(* awaited call and every timer is a task in the bag `tasks`; a task       *)
(* carries the values its closure captured when the handler was invoked.   *)
(* An action is one run-to-completion step of the event loop: a handler or *)
(* the continuation after one await, together with the effects React runs  *)
(* for the resulting render.  The texts that are only displayed            *)
(* (statusMessage, message) are read by no handler and are left out.       *)
(*                                                                         *)
(* The two zustand stores are modelled the same way, each under its own    *)
(* specification: store/useAuthStore.ts with expo-secure-store and the     *)
(* response interceptor of services/api.ts (SpecAuth), and                 *)
(* store/useClassStore.ts with its cache clock (SpecClass).                *)
(***************************************************************************)
EXTENDS Integers, Sequences, FiniteSets, Bags, TLC

VARIABLES
    variant,    \* which implementation of the screen is mounted
    mounted,    \* the screen instance is on the navigation stack
    auto,       \* useState of FaceLivenessScreen.tsx
    manual,     \* useState of the screen in ClassesScreen.tsx
    tasks,      \* bag of pending awaits and timers, each with its closure
    os,         \* device permission status as the OS holds it
    log,        \* observation counters and the last step's outcome
    session,    \* useAuthStore: isAuthenticated, user, token, isLoading
    secure,     \* expo-secure-store: the items 'token' and 'user'
    calls,      \* bag of pending session-store actions and API requests
    seen,       \* observation: what the last session-store step did
    classes,    \* useClassStore: the lists, isLoading, error, lastUpdated
    clock,      \* Date.now()
    pending,    \* bag of pending requests of the class store
    noted,      \* observation: what the last class-store step did
    card,       \* the projection card: its stats prop and what it rendered
    scan        \* the QR scan screen: state, refs, pending work, observations

\* the screen's variables and the stores' variables
screenVars == <<variant, mounted, auto, manual, tasks, os, log>>
authVars == <<session, secure, calls, seen>>
classVars == <<classes, clock, pending, noted>>
storeVars == <<authVars, classVars>>
\* the variables of the other screens
viewVars == <<card, scan>>

vars == <<screenVars, storeVars, viewVars>>

-----------------------------------------------------------------------------
(* Bounds of the model *)

MaxChallenges == 2      \* longest challenge list the server sends
MaxPresses == 2         \* presses of the start / continue button per mount
MaxRuns == 2            \* runs of the permission effect per mount (manual)
MaxRetries == 1         \* presses of "Try Again" per mount (manual)

-----------------------------------------------------------------------------
(* Values *)

None == "<none>"

ChallengeTypes == {"smile", "turn_left"}

\* the challenge lists the server is taken to send: for every length the
\* two lists that alternate the types, so that neighbours always differ
RECURSIVE Alternate(_, _)
Alternate(n, first) ==
    IF n = 0 THEN <<>>
    ELSE <<first>> \o Alternate(n - 1, CHOOSE t \in ChallengeTypes : t # first)

\* LivenessChallenge[] as the server may send it; only `type` is consumed
ChallengeLists == {Alternate(n, t) : n \in 0..MaxChallenges, t \in ChallengeTypes}

\* text a server puts into `message`; None is an absent or empty message
ServerMessages == {"face mismatch", None}

\* what the axios call of services/api.ts settles with, before interceptors
\*   kind "data"    : 2xx, body {success, message, challenges}
\*   kind "http"    : non-2xx response whose body has a message
\*   kind "network" : no response at all (error.message is "Network Error")
ApiOutcomes(lists) ==
    [kind : {"data"}, success : BOOLEAN, message : ServerMessages, challenges : lists]
    \cup [kind : {"http"}, status : {401, 500}, message : ServerMessages \ {None}]
    \cup [kind : {"network"}]

\* api.interceptors.response, rejection handler: the Error the caller sees
interceptorMessage_noOverride(err) ==
    IF err.kind = "network" THEN "Network Error"
    ELSE err.message

interceptorMessage(err) ==
    IF err.kind = "network" THEN "Network Error"
    ELSE IF err.status = 401 THEN "Session expired. Please log in again."
    ELSE err.message

\* `x || fallback` on a message string
OrElse(m, fallback) == IF m = None THEN fallback ELSE m

One(t) == SetToBag({t})

\* number of pending tasks of the given kinds
Pending(kinds) ==
    LET ts == {t \in BagToSet(tasks) : t.k \in kinds}
        RECURSIVE Sum(_)
        Sum(S) == IF S = {} THEN 0
                  ELSE LET t == CHOOSE x \in S : TRUE
                       IN CopiesIn(t, tasks) + Sum(S \ {t})
    IN Sum(ts)

\* observation: what the last step did (last, with the response or the number
\* of presses it handled), per attempt the captures that succeeded; per mount
\* the geolocation reads and submissions issued, the navigations triggered
\* and the counters the bounds refer to
EmptyLog == [captured |-> 0, geo |-> 0, submit |-> 0,
             nav |-> 0, runs |-> 0, retries |-> 0, presses |-> 0,
             taps |-> 0, res |-> None, last |-> "mount"]

Note(l, what) == [l EXCEPT !.last = what, !.res = None, !.taps = 0]
Count(l, field, what) == [Note(l, what) EXCEPT ![field] = @ + 1]

\* result of a permission prompt: `current` is what the OS holds
PermissionResults(current) == IF current = "granted" THEN {"granted", "throws"}
                              ELSE {"granted", "denied", "throws"}

GrantOs(field, r) == IF r = "granted" THEN [os EXCEPT ![field] = "granted"] ELSE os

-----------------------------------------------------------------------------
(* Variant "auto": src/src/screens/FaceLivenessScreen.tsx *)

AutoInit ==
    [screenState |-> "initializing", challenges |-> <<>>, currentIndex |-> 0,
     capturedData |-> <<>>, countdown |-> None,
     errorDetails |-> "", mountCamera |-> FALSE, isCameraReady |-> FALSE]

\* first value of the countdown loop `for (let i = 2; i > 0; i--)`
CountdownFrom == 2

\* cameraRef.current: the CameraView is rendered by the last committed render
A_cameraRef ==
    mounted /\ auto.mountCamera /\ auto.screenState \notin {"error", "success"}

\* useEffect(..., [screenState, currentIndex]): runs runChallengeSequence up
\* to its first await when the committed render is in 'countdown'
A_effectFires(new) ==
    /\ mounted
    /\ new.screenState = "countdown"
    /\ (auto.screenState # "countdown" \/ auto.currentIndex # new.currentIndex)

\* commit `new` (no-op after unmount) and leave `base` as the pending tasks
A_commit(new, base) ==
    IF A_effectFires(new)
    THEN /\ auto' = [new EXCEPT !.countdown = CountdownFrom]
         /\ tasks' = base (+) One([k |-> "seq", i |-> CountdownFrom,
                                   chs |-> new.challenges, idx |-> new.currentIndex,
                                   ready |-> new.isCameraReady])
    ELSE /\ auto' = IF mounted THEN new ELSE auto
         /\ tasks' = base

A_error(s, details) == [s EXCEPT !.screenState = "error", !.errorDetails = details]

\* init, line 101: await requestPermission()
A_init_cameraStatus ==
    /\ variant = "auto"
    /\ \E t \in BagToSet(tasks), r \in PermissionResults(os.camera) :
        /\ t.k = "init" /\ t.at = "camera"
        /\ os' = GrantOs("camera", r)
        /\ tasks' = IF r = "throws" THEN tasks (-) One(t)
                    ELSE (tasks (-) One(t)) (+)
                         One([k |-> "init", at |-> "location", cam |-> (r = "granted")])
        /\ log' = Note(log, "step")
    /\ UNCHANGED <<variant, mounted, auto, manual, storeVars, viewVars>>

\* line 104: !cameraStatus.granted || locStatus.status !== 'granted'
A_permissionMissing_cameraOnly(cam, loc) == ~cam

A_permissionMissing(cam, loc) == ~cam \/ loc # "granted"

\* init, lines 102-112: await Location.requestForegroundPermissionsAsync()
A_init_locStatus ==
    /\ variant = "auto"
    /\ \E t \in BagToSet(tasks), r \in PermissionResults(os.location) :
        /\ t.k = "init" /\ t.at = "location"
        /\ os' = GrantOs("location", r)
        /\ IF r = "throws"
           THEN /\ A_commit(auto, tasks (-) One(t))
                /\ log' = Note(log, "step")
           ELSE IF A_permissionMissing(t.cam, r)
           THEN /\ A_commit(A_error(auto, "Camera and Location permissions are required."),
                            tasks (-) One(t))
                /\ log' = Note(log, "permission_denied")
           ELSE /\ A_commit(auto, (tasks (-) One(t)) (+) One([k |-> "init", at |-> "challenges"]))
                /\ log' = Note(log, "getLivenessChallenges")
    /\ UNCHANGED <<variant, mounted, manual, storeVars, viewVars>>

\* init, lines 112-124: the challenge request settles
A_init_challenges ==
    /\ variant = "auto"
    /\ \E t \in BagToSet(tasks), res \in ApiOutcomes(ChallengeLists) :
        /\ t.k = "init" /\ t.at = "challenges"
        /\ IF res.kind = "data" /\ res.success /\ Len(res.challenges) > 0
           THEN /\ A_commit([auto EXCEPT !.challenges = res.challenges,
                                         !.screenState = "ready"],
                            tasks (-) One(t))
                /\ log' = Note(log, "challenges_ok")
           ELSE /\ A_commit(A_error(auto,
                               IF res.kind = "data" THEN "No verification challenges received."
                               ELSE interceptorMessage(res)),
                            tasks (-) One(t))
                /\ log' = Note(log, "challenges_failed")
    /\ UNCHANGED <<variant, mounted, manual, os, storeVars, viewVars>>

\* lines 87-96: setTimeout(() => setMountCamera(true), 300)
A_mountCameraTimer ==
    /\ variant = "auto"
    /\ [k |-> "mountCamera"] \in BagToSet(tasks)
    /\ A_commit([auto EXCEPT !.mountCamera = TRUE], tasks (-) One([k |-> "mountCamera"]))
    /\ log' = Note(log, "step")
    /\ UNCHANGED <<variant, mounted, manual, os, storeVars, viewVars>>

\* line 310: onCameraReady={() => setIsCameraReady(true)}
A_onCameraReady ==
    /\ variant = "auto"
    /\ A_cameraRef
    /\ ~auto.isCameraReady
    /\ A_commit([auto EXCEPT !.isCameraReady = TRUE], tasks)
    /\ log' = Note(log, "step")
    /\ UNCHANGED <<variant, mounted, manual, os, storeVars, viewVars>>

A_pressStart(s) == [s EXCEPT !.screenState = "countdown"]

\* n presses reach the handler of one render
RECURSIVE A_presses(_, _)
A_presses(n, s) == IF n = 0 THEN s ELSE A_presses(n - 1, A_pressStart(s))

\* line 361: onPress={() => setScreenState('countdown')}, button of the
\* 'ready' view, disabled until the camera is ready
A_startVerification ==
    /\ variant = "auto"
    /\ mounted
    /\ auto.screenState = "ready"
    /\ auto.isCameraReady
    /\ \E n \in 1..(MaxPresses - log.presses) :
        /\ A_commit(A_presses(n, auto), tasks)
        /\ log' = [Note(log, "start") EXCEPT !.taps = n, !.presses = @ + n]
    /\ UNCHANGED <<variant, mounted, manual, os, storeVars, viewVars>>

\* outcomes of cameraRef.current.takePictureAsync(...)
PhotoOutcomes == {"ok", "no_base64", "rejects"}

\* outcomes of ImageManipulator.manipulateAsync(...)
OptimizeOutcomes == {"ok", "no_base64", "rejects"}

\* outcomes of Location.getCurrentPositionAsync(...)
PositionOutcomes == {"ok", "rejects"}

\* e.message of a rejected geolocation read
PositionError == "Location request failed"

\* the data URL built from the optimized picture
Jpeg == "data:image/jpeg;base64"

\* runChallengeSequence, lines 146-156, and captureAndProcess up to its await
A_runChallengeSequence ==
    /\ variant = "auto"
    /\ \E t \in BagToSet(tasks) :
        /\ t.k = "seq"
        /\ IF t.i > 1
           THEN /\ A_commit([auto EXCEPT !.countdown = t.i - 1],
                            (tasks (-) One(t)) (+) One([t EXCEPT !.i = t.i - 1]))
                /\ log' = Note(log, "step")
           ELSE LET s == [auto EXCEPT !.countdown = None, !.screenState = "capturing"]
                IN IF ~A_cameraRef \/ ~t.ready
                   THEN /\ A_commit(A_error(s, "Camera not ready. Please try again."),
                                    tasks (-) One(t))
                        /\ log' = Note(log, "camera_unavailable")
                   ELSE /\ A_commit(s, (tasks (-) One(t)) (+)
                                       One([k |-> "photo", chs |-> t.chs, idx |-> t.idx]))
                        /\ log' = Note(log, "takePicture")
    /\ UNCHANGED <<variant, mounted, manual, os, storeVars, viewVars>>

\* captureAndProcess, lines 172-185: takePictureAsync settles
A_captureAndProcess_photo ==
    /\ variant = "auto"
    /\ \E t \in BagToSet(tasks), o \in PhotoOutcomes :
        /\ t.k = "photo"
        /\ IF o = "ok"
           THEN /\ A_commit(auto, (tasks (-) One(t)) (+) One([t EXCEPT !.k = "optimize"]))
                /\ log' = Note(log, "step")
           ELSE /\ A_commit(A_error(auto, "Failed to capture. Please restart."),
                            tasks (-) One(t))
                /\ log' = Note(log, "capture_failed")
    /\ UNCHANGED <<variant, mounted, manual, os, storeVars, viewVars>>

\* handleSubmit, lines 216-221, up to its first await
A_handleSubmit_start(s) ==
    [s EXCEPT !.screenState = "submitting"]

\* the decision inside the setCapturedData updater, line 196
A_isLast(t) == ~(t.idx < Len(t.chs) - 1)

\* captureAndProcess, lines 181-213: manipulateAsync settles.  The updater of
\* setCapturedData appends to the live list; after an unmount React may or
\* may not still evaluate it.
A_captureAndProcess_optimized ==
    /\ variant = "auto"
    /\ \E t \in BagToSet(tasks), o \in OptimizeOutcomes, runs \in BOOLEAN :
        /\ t.k = "optimize"
        /\ mounted => runs
        /\ IF o = "rejects" \/ t.idx + 1 > Len(t.chs)
           THEN /\ runs
                /\ A_commit(A_error(auto, "Failed to capture. Please restart."),
                            tasks (-) One(t))
                /\ log' = Note(log, "capture_failed")
           ELSE LET newRecord == [challengeType |-> t.chs[t.idx + 1], image |-> Jpeg]
                    newData == Append(auto.capturedData, newRecord)
                    s == [auto EXCEPT !.capturedData = newData]
                IN IF ~runs
                   THEN /\ A_commit(auto, tasks (-) One(t))
                        /\ log' = Note(log, "dropped")
                   ELSE IF ~A_isLast(t)
                   THEN /\ A_commit(s, (tasks (-) One(t)) (+) One([k |-> "advance"]))
                        /\ log' = Count(log, "captured", "captured")
                   ELSE /\ A_commit(A_handleSubmit_start(s),
                                    (tasks (-) One(t)) (+)
                                    One([k |-> "position", data |-> newData]))
                        /\ log' = [Count(log, "captured", "captured_last")
                                      EXCEPT !.geo = @ + 1]
    /\ UNCHANGED <<variant, mounted, manual, os, storeVars, viewVars>>

\* lines 198-201: setTimeout(() => { setCurrentIndex(idx => idx + 1);
\*                                   setScreenState('countdown') }, 500)
A_advanceTimer ==
    /\ variant = "auto"
    /\ [k |-> "advance"] \in BagToSet(tasks)
    /\ A_commit([auto EXCEPT !.currentIndex = @ + 1, !.screenState = "countdown"],
                tasks (-) One([k |-> "advance"]))
    /\ log' = Note(log, "step")
    /\ UNCHANGED <<variant, mounted, manual, os, storeVars, viewVars>>

\* handleSubmit, lines 221-227: the geolocation read settles
A_handleSubmit_loc ==
    /\ variant = "auto"
    /\ \E t \in BagToSet(tasks), o \in PositionOutcomes :
        /\ t.k = "position"
        /\ IF o = "ok"
           THEN /\ A_commit(auto, (tasks (-) One(t)) (+) One([t EXCEPT !.k = "verify"]))
                /\ log' = Count(log, "submit", "submitWithFaceVerification")
           ELSE /\ A_commit(A_error(auto, PositionError), tasks (-) One(t))
                /\ log' = Note(log, "position_failed")
    /\ UNCHANGED <<variant, mounted, manual, os, storeVars, viewVars>>

\* handleSubmit, lines 223-252: the submission settles
A_handleSubmit_res ==
    /\ variant = "auto"
    /\ \E t \in BagToSet(tasks), res \in ApiOutcomes({<<>>}) :
        /\ t.k = "verify"
        /\ IF res.kind = "data" /\ res.success
           THEN /\ A_commit([auto EXCEPT !.screenState = "success"],
                            (tasks (-) One(t)) (+) One([k |-> "navigate"]))
                /\ log' = Note(log, "verified")
           ELSE /\ A_commit(A_error(auto,
                               IF res.kind = "data" THEN OrElse(res.message, "Verification Failed")
                               ELSE interceptorMessage(res)),
                            tasks (-) One(t))
                /\ log' = [Note(log, "rejected") EXCEPT !.res = res]
    /\ UNCHANGED <<variant, mounted, manual, os, storeVars, viewVars>>

\* lines 234-245: setTimeout(() => navigation.goBack() | reset(...), 2000)
A_navigateTimer ==
    /\ variant = "auto"
    /\ [k |-> "navigate"] \in BagToSet(tasks)
    /\ mounted' = FALSE
    /\ tasks' = (tasks (-) One([k |-> "navigate"])) (-) One([k |-> "mountCamera"])
    /\ log' = Count(log, "nav", "navigate")
    /\ UNCHANGED <<variant, auto, manual, os, storeVars, viewVars>>

\* the user leaves: "Close" of the error view (line 287), header or
\* hardware back; the cleanup of the focus effect clears its timer (line 91)
A_leave ==
    /\ variant = "auto"
    /\ mounted
    /\ mounted' = FALSE
    /\ tasks' = tasks (-) One([k |-> "mountCamera"])
    /\ log' = Note(log, "leave")
    /\ UNCHANGED <<variant, auto, manual, os, storeVars, viewVars>>

AutoNext ==
    \/ A_init_cameraStatus
    \/ A_init_locStatus
    \/ A_init_challenges
    \/ A_mountCameraTimer
    \/ A_onCameraReady
    \/ A_startVerification
    \/ A_runChallengeSequence
    \/ A_captureAndProcess_photo
    \/ A_captureAndProcess_optimized
    \/ A_advanceTimer
    \/ A_handleSubmit_loc
    \/ A_handleSubmit_res
    \/ A_navigateTimer

-----------------------------------------------------------------------------
(* Variant "manual": the FaceLiveness screen of src/src/screens/ClassesScreen.tsx *)

ManualInit ==
    [screenState |-> "loading", errorMessage |-> None,
     challenges |-> <<>>, currentChallengeIndex |-> 0, capturedChallenges |-> <<>>,
     countdown |-> 3, isCountingDown |-> FALSE,
     locationPermission |-> FALSE, permission |-> None]

\* `let count = 3` of startChallenge
IntervalFrom == 3

\* e.message of a rejected camera or image-manipulator call
DeviceError == "Camera is not running"

\* e.message of reading `.type` of undefined
TypeError == "Cannot read property 'type' of undefined"

\* which of the render branches of lines 589-797 is on screen
M_view(s) ==
    IF s.screenState = "loading" THEN "loading"
    ELSE IF s.screenState = "permission_denied" \/ s.permission # "granted"
            \/ ~s.locationPermission THEN "permission"
    ELSE IF s.screenState = "error" THEN "error"
    ELSE IF s.screenState = "success" THEN "success"
    ELSE IF s.screenState = "submitting" THEN "submitting"
    ELSE "camera"

\* cameraRef.current: only the camera view renders the CameraView
M_cameraRef == mounted /\ M_view(manual) = "camera"

M_commit(new, base) ==
    /\ manual' = IF mounted THEN new ELSE manual
    /\ tasks' = base

M_error(s, msg) ==
    [s EXCEPT !.screenState = "error", !.errorMessage = msg]

\* useEffect(..., [permission, requestPermission]), lines 367-399: the part of
\* requestPermissions that runs before its first await, for a render whose
\* hook status is p.  The effect runs on mount, where the status is null, and
\* again whenever a settled requestPermission() replaces the status
M_requestPermissions_start(p) ==
    IF p # "granted" THEN One([k |-> "perm", at |-> "camera"])
    ELSE One([k |-> "perm", at |-> "location"])

\* requestPermissions, lines 371-377: await requestPermission() settles
M_requestPermissions_camera ==
    /\ variant = "manual"
    /\ log.runs < MaxRuns
    /\ \E t \in BagToSet(tasks), r \in PermissionResults(os.camera) :
        /\ t.k = "perm" /\ t.at = "camera"
        /\ os' = GrantOs("camera", r)
        /\ IF r = "throws"
           THEN /\ M_commit(M_error(manual, "Failed to initialize. Please try again."),
                            tasks (-) One(t))
                /\ log' = Note(log, "init_failed")
           ELSE LET rerun == IF mounted THEN M_requestPermissions_start(r) ELSE EmptyBag
                    s == [manual EXCEPT !.permission = r]
                IN IF r # "granted"
                   THEN /\ M_commit([s EXCEPT !.screenState = "permission_denied"],
                                    (tasks (-) One(t)) (+) rerun)
                        /\ log' = IF mounted THEN Count(log, "runs", "permission_denied")
                                   ELSE Note(log, "permission_denied")
                   ELSE /\ M_commit(s, ((tasks (-) One(t)) (+) rerun)
                                       (+) One([k |-> "perm", at |-> "location"]))
                        /\ log' = IF mounted THEN Count(log, "runs", "step")
                                   ELSE Note(log, "step")
    /\ UNCHANGED <<variant, mounted, auto, storeVars, viewVars>>

\* requestPermissions, lines 380-390: the location prompt settles
M_requestPermissions_location ==
    /\ variant = "manual"
    /\ \E t \in BagToSet(tasks), r \in PermissionResults(os.location) :
        /\ t.k = "perm" /\ t.at = "location"
        /\ os' = GrantOs("location", r)
        /\ IF r = "throws"
           THEN /\ M_commit(M_error(manual, "Failed to initialize. Please try again."),
                            tasks (-) One(t))
                /\ log' = Note(log, "init_failed")
           ELSE LET s == [manual EXCEPT !.locationPermission = (r = "granted")]
                IN IF r # "granted"
                   THEN /\ M_commit([s EXCEPT !.screenState = "permission_denied"],
                                    tasks (-) One(t))
                        /\ log' = Note(log, "permission_denied")
                   ELSE /\ M_commit(s,
                                    (tasks (-) One(t)) (+) One([k |-> "fetch"]))
                        /\ log' = Note(log, "getLivenessChallenges")
    /\ UNCHANGED <<variant, mounted, auto, storeVars, viewVars>>

\* fetchChallenges, lines 405-419: the challenge request settles
M_fetchChallenges ==
    /\ variant = "manual"
    /\ \E res \in ApiOutcomes(ChallengeLists) :
        /\ [k |-> "fetch"] \in BagToSet(tasks)
        /\ IF res.kind = "data" /\ res.success /\ Len(res.challenges) > 0
           THEN /\ M_commit([manual EXCEPT !.challenges = res.challenges,
                                           !.screenState = "ready"],
                            tasks (-) One([k |-> "fetch"]))
                /\ log' = Note(log, "challenges_ok")
           ELSE /\ M_commit(M_error(manual,
                               IF res.kind = "data" THEN "No challenges received"
                               ELSE interceptorMessage(res)),
                            tasks (-) One([k |-> "fetch"]))
                /\ log' = Note(log, "challenges_failed")
    /\ UNCHANGED <<variant, mounted, auto, os, storeVars, viewVars>>

\* "Grant Permissions" of the permission view, lines 618-621
M_grantPermissions ==
    /\ variant = "manual"
    /\ mounted
    /\ M_view(manual) = "permission"
    /\ log.runs < MaxRuns
    /\ [k |-> "grant", at |-> "camera"] \notin BagToSet(tasks)
    /\ M_commit(manual, tasks (+) One([k |-> "grant", at |-> "camera"]))
    /\ log' = Note(log, "step")
    /\ UNCHANGED <<variant, mounted, auto, os, storeVars, viewVars>>

\* lines 619-620: the two prompts of "Grant Permissions" settle in turn
M_grantPermissions_settle ==
    /\ variant = "manual"
    /\ \E t \in BagToSet(tasks) :
        /\ t.k = "grant"
        /\ IF t.at = "camera"
           THEN /\ log.runs < MaxRuns
                /\ \E r \in PermissionResults(os.camera) :
                    /\ os' = GrantOs("camera", r)
                    /\ IF r = "throws" \/ ~mounted
                       THEN /\ M_commit(manual, 
                                   IF r = "throws" THEN tasks (-) One(t)
                                   ELSE (tasks (-) One(t)) (+) One([t EXCEPT !.at = "location"]))
                            /\ log' = Note(log, "step")
                       ELSE /\ M_commit([manual EXCEPT !.permission = r],
                                        ((tasks (-) One(t)) (+) M_requestPermissions_start(r))
                                        (+) One([t EXCEPT !.at = "location"]))
                            /\ log' = Count(log, "runs", "step")
           ELSE \E r \in PermissionResults(os.location) :
                    /\ os' = GrantOs("location", r)
                    /\ M_commit(manual, tasks (-) One(t))
                    /\ log' = Note(log, "step")
    /\ UNCHANGED <<variant, mounted, auto, storeVars, viewVars>>

\* startChallenge, lines 436-455, run once by a press on a render whose
\* closure holds `c`: `s` is the state the set-calls have produced so far,
\* the result is the state and the intervals started
M_startChallenge(c, acc) ==
    IF c.isCountingDown THEN acc
    ELSE [s |-> [acc.s EXCEPT !.screenState = "challenge", !.isCountingDown = TRUE,
                              !.countdown = IntervalFrom],
          started |-> acc.started + 1]

RECURSIVE M_presses(_, _, _)
M_presses(c, n, acc) ==
    IF n = 0 THEN acc ELSE M_presses(c, n - 1, M_startChallenge(c, acc))

RECURSIVE Copies(_, _)
Copies(t, n) == IF n = 0 THEN EmptyBag ELSE One(t) (+) Copies(t, n - 1)

\* lines 773-783: "Start Verification" / "Continue", shown by the camera view
\* while screenState is 'ready' and no countdown runs; n presses reach the
\* handler of one render
M_pressStart ==
    /\ variant = "manual"
    /\ mounted
    /\ M_view(manual) = "camera"
    /\ manual.screenState = "ready"
    /\ ~manual.isCountingDown
    /\ \E n \in 1..(MaxPresses - log.presses) :
        LET r == M_presses(manual, n, [s |-> manual, started |-> 0])
        IN /\ M_commit(r.s, tasks (+) Copies([k |-> "interval", count |-> IntervalFrom,
                                              chs |-> manual.challenges,
                                              idx |-> manual.currentChallengeIndex,
                                              cap |-> manual.capturedChallenges],
                                             r.started))
           /\ log' = [Note(log, "start") EXCEPT !.taps = n, !.presses = @ + n]
    /\ UNCHANGED <<variant, mounted, auto, os, storeVars, viewVars>>

\* intervals started by the same handler run are due together and fire in
\* the order they were set: none of them is a tick ahead of another
M_due(t) ==
    \A u \in BagToSet(tasks) :
        (u.k = "interval" /\ u.chs = t.chs /\ u.idx = t.idx /\ u.cap = t.cap)
            => u.count <= t.count

\* lines 445-454, one firing of the interval, and captureChallenge (458-472)
\* up to its await when the count reaches zero
M_countdownInterval ==
    /\ variant = "manual"
    /\ \E t \in BagToSet(tasks) :
        /\ t.k = "interval"
        /\ M_due(t)
        /\ LET count == t.count - 1
               s == [manual EXCEPT !.countdown = count]
           IN IF count # 0
              THEN /\ M_commit(s, (tasks (-) One(t)) (+) One([t EXCEPT !.count = count]))
                   /\ log' = Note(log, "step")
              ELSE IF ~M_cameraRef
              THEN /\ M_commit([s EXCEPT !.isCountingDown = FALSE], tasks (-) One(t))
                   /\ log' = Note(log, "camera_unavailable")
              ELSE /\ M_commit([s EXCEPT !.screenState = "capturing"],
                               (tasks (-) One(t)) (+)
                               One([k |-> "photo", chs |-> t.chs, idx |-> t.idx, cap |-> t.cap]))
                   /\ log' = Note(log, "takePicture")
    /\ UNCHANGED <<variant, mounted, auto, os, storeVars, viewVars>>

\* the catch block of captureChallenge, lines 521-526
M_captureError(s, msg) ==
    [M_error(s, OrElse(msg, "Failed to capture image. Please try again."))
        EXCEPT !.isCountingDown = FALSE]

\* captureChallenge, lines 468-487: takePictureAsync settles
M_captureChallenge_photo ==
    /\ variant = "manual"
    /\ \E t \in BagToSet(tasks), o \in PhotoOutcomes :
        /\ t.k = "photo"
        /\ IF o = "ok"
           THEN /\ M_commit(manual, (tasks (-) One(t)) (+) One([t EXCEPT !.k = "optimize"]))
                /\ log' = Note(log, "step")
           ELSE /\ M_commit(M_captureError(manual,
                               IF o = "no_base64" THEN "Failed to capture photo" ELSE DeviceError),
                            tasks (-) One(t))
                /\ log' = Note(log, "capture_failed")
    /\ UNCHANGED <<variant, mounted, auto, os, storeVars, viewVars>>

\* submitAttendance, lines 530-538, up to its first await
M_submitAttendance_start(s) ==
    [s EXCEPT !.screenState = "submitting"]

\* line 506: currentChallengeIndex >= challenges.length - 1
M_allComplete(t) == t.idx >= Len(t.chs) - 1

\* line 502: the list the new capture is appended to
M_appendTo(t) == t.cap

\* captureChallenge, lines 479-526: manipulateAsync settles
M_captureChallenge_optimized ==
    /\ variant = "manual"
    /\ \E t \in BagToSet(tasks), o \in OptimizeOutcomes :
        /\ t.k = "optimize"
        /\ IF o # "ok" \/ t.idx + 1 > Len(t.chs)
           THEN /\ M_commit(M_captureError(manual,
                               IF o = "rejects" THEN DeviceError
                               ELSE IF o = "no_base64" THEN "Failed to process image"
                               ELSE TypeError),
                            tasks (-) One(t))
                /\ log' = Note(log, "capture_failed")
           ELSE LET newCaptured == [challengeType |-> t.chs[t.idx + 1], image |-> Jpeg]
                    updatedCaptured == Append(M_appendTo(t), newCaptured)
                    s == [manual EXCEPT !.capturedChallenges = updatedCaptured]
                IN IF M_allComplete(t)
                   THEN /\ M_commit(M_submitAttendance_start(s),
                                    (tasks (-) One(t)) (+)
                                    One([k |-> "position", data |-> updatedCaptured]))
                        /\ log' = [Count(log, "captured", "captured_last")
                                      EXCEPT !.geo = @ + 1]
                   ELSE /\ M_commit([s EXCEPT !.currentChallengeIndex = @ + 1,
                                              !.screenState = "ready",
                                              !.isCountingDown = FALSE],
                                    tasks (-) One(t))
                        /\ log' = Count(log, "captured", "captured")
    /\ UNCHANGED <<variant, mounted, auto, os, storeVars, viewVars>>

\* submitAttendance, lines 536-547: the geolocation read settles
M_submitAttendance_location ==
    /\ variant = "manual"
    /\ \E t \in BagToSet(tasks), o \in PositionOutcomes :
        /\ t.k = "position"
        /\ IF o = "ok"
           THEN /\ M_commit(manual, (tasks (-) One(t)) (+) One([t EXCEPT !.k = "verify"]))
                /\ log' = Count(log, "submit", "submitWithFaceVerification")
           ELSE /\ M_commit(M_error(manual, PositionError), tasks (-) One(t))
                /\ log' = Note(log, "position_failed")
    /\ UNCHANGED <<variant, mounted, auto, os, storeVars, viewVars>>

\* submitAttendance, lines 540-565: the submission settles
M_submitAttendance_response ==
    /\ variant = "manual"
    /\ \E t \in BagToSet(tasks), res \in ApiOutcomes({<<>>}) :
        /\ t.k = "verify"
        /\ IF res.kind = "data" /\ res.success
           THEN /\ M_commit([manual EXCEPT !.screenState = "success"],
                            (tasks (-) One(t)) (+) One([k |-> "navigate"]))
                /\ log' = Note(log, "verified")
           ELSE /\ M_commit(M_error(manual,
                               IF res.kind = "data" THEN OrElse(res.message, "Verification failed")
                               ELSE interceptorMessage(res)),
                            tasks (-) One(t))
                /\ log' = [Note(log, "rejected") EXCEPT !.res = res]
    /\ UNCHANGED <<variant, mounted, auto, os, storeVars, viewVars>>

\* lines 555-557: setTimeout(() => navigation.goBack(), 2500)
M_navigateTimer ==
    /\ variant = "manual"
    /\ [k |-> "navigate"] \in BagToSet(tasks)
    /\ mounted' = FALSE
    /\ tasks' = tasks (-) One([k |-> "navigate"])
    /\ log' = Count(log, "nav", "navigate")
    /\ UNCHANGED <<variant, auto, manual, os, storeVars, viewVars>>

\* the state handleRetry sets, lines 570-575
M_retryState(s) ==
    [s EXCEPT !.screenState = "loading", !.challenges = <<>>,
              !.currentChallengeIndex = 0, !.capturedChallenges = <<>>,
              !.errorMessage = None, !.isCountingDown = FALSE]

\* handleRetry, lines 569-577: "Try Again" of the error view
M_handleRetry ==
    /\ variant = "manual"
    /\ mounted
    /\ M_view(manual) = "error"
    /\ log.retries < MaxRetries
    /\ M_commit(M_retryState(manual), tasks (+) One([k |-> "fetch"]))
    /\ log' = [Count(log, "retries", "retry") EXCEPT !.captured = 0]
    /\ UNCHANGED <<variant, mounted, auto, os, storeVars, viewVars>>

\* "Cancel" / "Back" (lines 628, 662, 788), header or hardware back
M_leave ==
    /\ variant = "manual"
    /\ mounted
    /\ mounted' = FALSE
    /\ log' = Note(log, "leave")
    /\ UNCHANGED <<variant, auto, manual, tasks, os, storeVars, viewVars>>

ManualNext ==
    \/ M_requestPermissions_camera
    \/ M_requestPermissions_location
    \/ M_fetchChallenges
    \/ M_grantPermissions
    \/ M_grantPermissions_settle
    \/ M_pressStart
    \/ M_countdownInterval
    \/ M_captureChallenge_photo
    \/ M_captureChallenge_optimized
    \/ M_submitAttendance_location
    \/ M_submitAttendance_response
    \/ M_navigateTimer
    \/ M_handleRetry

-----------------------------------------------------------------------------

\* "denied" is any status but granted; a prompt may turn it into granted
(* The session store, store/useAuthStore.ts, with the response interceptor
   of services/api.ts and expo-secure-store *)

MaxCalls == 4       \* logins, registers, logouts and requests that are started

\* the users the server knows, each with the token it issues to that user
Users == {"ann", "bob"}
TokenOf(u) == IF u = "ann" THEN "jwt1" ELSE "jwt2"

\* `!x` on a string or null: null, undefined and '' are falsy
Falsy(x) == x = None \/ x = ""

\* JSON.stringify(user): the text that is stored under 'user'
JsonStringify(u) ==
    IF u = "ann" THEN "{name:ann}"
    ELSE IF u = "bob" THEN "{name:bob}"
    ELSE IF u = "ann2" THEN "{name:ann,semester:2}"
    ELSE "{name:bob,semester:2}"

\* JSON.parse(text): the value, or a SyntaxError for a text that is no JSON
SyntaxError == "SyntaxError: JSON Parse error"
JsonParse(text) ==
    IF text = "{name:ann}" THEN "ann"
    ELSE IF text = "{name:bob}" THEN "bob"
    ELSE IF text = "{name:ann,semester:2}" THEN "ann2"
    ELSE IF text = "{name:bob,semester:2}" THEN "bob2"
    ELSE SyntaxError

\* a 'user' item that is no JSON text (cut off, or written by another build)
Truncated == "{name:"

\* initial state of the store, lines 45-48
SessionInit == [isAuthenticated |-> FALSE, user |-> None, token |-> None,
                isLoading |-> TRUE]

\* the items SecureStore may hold when the process starts: what an earlier
\* run left behind (login writes token then user, logout deletes token then
\* user, and either may stop half way)
SecureStates == [token : {None, "jwt1"}, user : {None, JsonStringify("ann"), Truncated}]

\* what a call of auth.login / auth.register settles with, before interceptors
\*   kind "data"  : 2xx with a body, token and user as sent (None: absent);
\*                  a complete body carries a user and that user's token
\*   kind "empty" : 2xx without a body (res.data is undefined)
AuthOutcomes ==
    {[kind |-> "data", token |-> TokenOf(u), user |-> u] : u \in Users}
    \cup [kind : {"data"}, token : {None, ""}, user : {None, "ann"}]
    \cup [kind : {"data"}, token : {"jwt1"}, user : {None}]
    \cup [kind : {"empty"}]
    \cup [kind : {"http"}, status : {401, 500}, message : {"Invalid credentials"}]
    \cup [kind : {"network"}]

\* what any other request settles with
RequestOutcomes ==
    [kind : {"data"}]
    \cup [kind : {"http"}, status : {401, 500}, message : {"Server error"}]
    \cup [kind : {"network"}]

\* a SecureStore call resolves or throws
SecureOutcomes == {"ok", "throws"}
SecureError == "Could not access the keystore"

NoResponse == [kind |-> "none"]
NoRead == [token |-> None, user |-> None]

\* observation of the last store step: the call that took it (by), the
\* calls it finished (done) and how, the response and the items it read, the
\* SecureStore writes the finished call made, whether the interceptor
\* started a logout, whether the store was authenticated before the step,
\* and the counters the bounds refer to; and of the run so far: whether a
\* step was taken while a logout and a call that writes the session were
\* both pending (overlapped), and whether a SecureStore call threw (threw)
EmptySeen == [by |-> None, done |-> {}, result |-> None, res |-> NoResponse,
              raised |-> None, thrown |-> None, wrote |-> <<>>, read |-> NoRead,
              from |-> None, launched |-> FALSE, was |-> FALSE,
              checks |-> 0, started |-> 0,
              overlapped |-> FALSE, threw |-> FALSE]

\* a logout is between its awaits (lines 85-86) while a login, a register
\* or an updateUser is between its own (lines 35-36, 98)
Overlapping ==
    \E c, d \in BagToSet(calls) :
        /\ c.op = "logout"
        /\ d.op \in {"login", "register", "updateUser"}

Saw(by) == [EmptySeen EXCEPT !.by = by, !.was = session.isAuthenticated,
                             !.checks = seen.checks, !.started = seen.started,
                             !.overlapped = seen.overlapped \/ Overlapping,
                             !.threw = seen.threw]

\* a call that ends by throwing: `catch (error) { ...; throw error; }`,
\* lines 56-59 and 67-70
Rethrow(error) == error

Rejected(o, c, error) ==
    [o EXCEPT !.done = {c.op}, !.result = "rejected", !.raised = error,
              !.thrown = Rethrow(error),
              !.threw = @ \/ error = SecureError]

\* interceptor, api.ts line 37: error.response?.status === 401
interceptorLogsOut_never(err) == FALSE

interceptorLogsOut(err) == err.kind = "http" /\ err.status = 401

\* logout() up to its first await, line 85
LogoutCall(from) == [op |-> "logout", pc |-> "deleteToken", from |-> from]

\* the calls the interceptor adds for a rejected response, api.ts lines 37-41
Intercepted(err) ==
    IF interceptorLogsOut(err) THEN One(LogoutCall("interceptor")) ELSE EmptyBag

\* handleAuthSuccess, line 30: !token || !user
InvalidResponse_tokenOnly(r) == Falsy(r.token)

InvalidResponse(r) == Falsy(r.token) \/ r.user = None

\* handleAuthSuccess, line 39: the state login / register set
AuthSuccessState_keepToken(s, r) ==
    [s EXCEPT !.user = r.user, !.isAuthenticated = TRUE]

AuthSuccessState(s, r) ==
    [s EXCEPT !.user = r.user, !.isAuthenticated = TRUE, !.token = r.token]

\* logout, line 91, and checkAuthState, line 117: the cleared session
Cleared_keepToken(s) == [s EXCEPT !.user = None, !.isAuthenticated = FALSE]

Cleared(s) == [s EXCEPT !.user = None, !.isAuthenticated = FALSE, !.token = None]

\* checkAuthState, lines 112-114: the hydrated session
Hydrated_stale(s, token, userData) == [s EXCEPT !.isLoading = FALSE]

Hydrated(s, token, userData) ==
    [s EXCEPT !.user = JsonParse(userData), !.isAuthenticated = TRUE,
              !.isLoading = FALSE, !.token = token]

\* App, src/unnamed/part_000 lines 40-42: the mount effect calls
\* checkAuthState, which runs up to its first await (lines 107-109)
Auth_checkAuthState ==
    /\ seen.checks = 0
    /\ session' = [session EXCEPT !.isLoading = TRUE]
    /\ calls' = calls (+) One([op |-> "checkAuthState", pc |-> "getToken"])
    /\ seen' = [Saw("checkAuthState") EXCEPT !.checks = 1]
    /\ UNCHANGED <<secure, screenVars, classVars, viewVars>>

\* checkAuthState, line 109: getItemAsync('token') settles; a throw enters
\* the catch block, which calls logout (line 121)
Auth_checkAuthState_token ==
    /\ \E c \in BagToSet(calls), o \in SecureOutcomes :
        /\ c.op = "checkAuthState" /\ c.pc = "getToken"
        /\ IF o = "ok"
           THEN /\ calls' = (calls (-) One(c)) (+)
                            One([op |-> "checkAuthState", pc |-> "getUser",
                                 token |-> secure.token])
                /\ seen' = Saw(c.op)
           ELSE /\ calls' = (calls (-) One(c)) (+) One(LogoutCall("checkAuthState"))
                /\ seen' = [Saw(c.op) EXCEPT !.raised = SecureError, !.threw = TRUE]
    /\ UNCHANGED <<session, secure, screenVars, classVars, viewVars>>

\* checkAuthState, lines 110-124: getItemAsync('user') settles
Auth_checkAuthState_user ==
    /\ \E c \in BagToSet(calls), o \in SecureOutcomes :
        /\ c.op = "checkAuthState" /\ c.pc = "getUser"
        /\ LET read == [token |-> c.token, user |-> secure.user]
               found == ~Falsy(c.token) /\ ~Falsy(secure.user)
               o1 == [Saw(c.op) EXCEPT !.read = read]
           IN IF o = "throws"
              THEN /\ calls' = (calls (-) One(c)) (+) One(LogoutCall("checkAuthState"))
                   /\ seen' = [Saw(c.op) EXCEPT !.raised = SecureError, !.threw = TRUE,
                                                !.read = [NoRead EXCEPT !.token = c.token]]
                   /\ session' = session
              ELSE IF found /\ JsonParse(secure.user) = SyntaxError
              THEN /\ calls' = (calls (-) One(c)) (+) One(LogoutCall("checkAuthState"))
                   /\ seen' = [o1 EXCEPT !.raised = SyntaxError]
                   /\ session' = session
              ELSE /\ calls' = calls (-) One(c)
                   /\ seen' = [o1 EXCEPT !.done = {c.op}, !.result = "resolved"]
                   /\ session' = IF found
                                 THEN Hydrated(session, c.token, secure.user)
                                 ELSE [Cleared(session) EXCEPT !.isLoading = FALSE]
    /\ UNCHANGED <<secure, screenVars, classVars, viewVars>>

\* LoginScreen.tsx line 43 / RegisterScreen.tsx line 142: login or register
\* up to its first await.  The screens exist while the store is loaded and
\* not authenticated (Navigation.tsx 82-134), and each screen disables its
\* button while its own call is pending
Auth_login ==
    /\ ~session.isLoading /\ ~session.isAuthenticated
    /\ seen.started < MaxCalls
    /\ \E op \in {"login", "register"} :
        /\ \A c \in BagToSet(calls) : c.op # op
        /\ calls' = calls (+) One([op |-> op, pc |-> "api"])
        /\ seen' = [Saw(op) EXCEPT !.started = @ + 1]
    /\ UNCHANGED <<session, secure, screenVars, classVars, viewVars>>

\* lines 53-54 / 64-65 with handleAuthSuccess lines 29-35: the API call
\* settles; a rejection passes the interceptor first
Auth_login_response ==
    /\ \E c \in BagToSet(calls), o \in AuthOutcomes :
        /\ c.op \in {"login", "register"} /\ c.pc = "api"
        /\ LET o1 == [Saw(c.op) EXCEPT !.res = o]
           IN IF o.kind \in {"http", "network"}
              THEN /\ calls' = (calls (-) One(c)) (+) Intercepted(o)
                   /\ seen' = [Rejected(o1, c, interceptorMessage(o))
                                 EXCEPT !.launched = interceptorLogsOut(o)]
              ELSE IF o.kind = "empty"
              THEN /\ calls' = calls (-) One(c)
                   /\ seen' = Rejected(o1, c, TypeError)
              ELSE IF InvalidResponse(o)
              THEN /\ calls' = calls (-) One(c)
                   /\ seen' = Rejected(o1, c, "Invalid response from server")
              ELSE /\ calls' = (calls (-) One(c)) (+)
                                One([op |-> c.op, pc |-> "setToken", res |-> o])
                   /\ seen' = o1
    /\ UNCHANGED <<session, secure, screenVars, classVars, viewVars>>

\* handleAuthSuccess, line 35: setItemAsync('token', token) settles
Auth_login_token ==
    /\ \E c \in BagToSet(calls), o \in SecureOutcomes :
        /\ c.op \in {"login", "register"} /\ c.pc = "setToken"
        /\ LET o1 == [Saw(c.op) EXCEPT !.res = c.res]
           IN IF o = "ok"
              THEN /\ secure' = [secure EXCEPT !.token = c.res.token]
                   /\ calls' = (calls (-) One(c)) (+) One([c EXCEPT !.pc = "setUser"])
                   /\ seen' = o1
              ELSE /\ secure' = secure
                   /\ calls' = calls (-) One(c)
                   /\ seen' = Rejected(o1, c, SecureError)
    /\ UNCHANGED <<session, screenVars, classVars, viewVars>>

\* handleAuthSuccess, lines 36-39, and set(newState), lines 55 / 66:
\* setItemAsync('user', JSON.stringify(user)) settles
Auth_login_user ==
    /\ \E c \in BagToSet(calls), o \in SecureOutcomes :
        /\ c.op \in {"login", "register"} /\ c.pc = "setUser"
        /\ calls' = calls (-) One(c)
        /\ LET o1 == [Saw(c.op) EXCEPT !.res = c.res]
               text == JsonStringify(c.res.user)
           IN IF o = "ok"
              THEN /\ secure' = [secure EXCEPT !.user = text]
                   /\ session' = AuthSuccessState(session, c.res)
                   /\ seen' = [o1 EXCEPT !.done = {c.op}, !.result = "resolved",
                                         !.wrote = << <<"token", c.res.token>>,
                                                      <<"user", text>> >>]
              ELSE /\ secure' = secure
                   /\ session' = session
                   /\ seen' = [Rejected(o1, c, SecureError)
                                 EXCEPT !.wrote = << <<"token", c.res.token>> >>]
    /\ UNCHANGED <<screenVars, classVars, viewVars>>

\* ProfileScreen.tsx line 97: the user logs out; logout up to its first await
Auth_logout ==
    /\ ~session.isLoading /\ session.isAuthenticated
    /\ seen.started < MaxCalls
    /\ calls' = calls (+) One(LogoutCall("ui"))
    /\ seen' = [Saw("logout") EXCEPT !.started = @ + 1]
    /\ UNCHANGED <<session, secure, screenVars, classVars, viewVars>>

\* the end of a logout, line 91, and for the logout that checkAuthState
\* awaits its finally block, line 123
LogoutEnds(c) ==
    /\ calls' = calls (-) One(c)
    /\ session' = IF c.from = "checkAuthState"
                  THEN [Cleared(session) EXCEPT !.isLoading = FALSE]
                  ELSE Cleared(session)

LogoutSeen(c, error) ==
    [Saw("logout") EXCEPT !.from = c.from, !.result = "resolved", !.raised = error,
                          !.threw = @ \/ error = SecureError,
                          !.done = IF c.from = "checkAuthState"
                                   THEN {"logout", "checkAuthState"}
                                   ELSE {"logout"}]

\* logout, lines 85-91: deleteItemAsync('token') settles
Auth_logout_token ==
    /\ \E c \in BagToSet(calls), o \in SecureOutcomes :
        /\ c.op = "logout" /\ c.pc = "deleteToken"
        /\ IF o = "ok"
           THEN /\ secure' = [secure EXCEPT !.token = None]
                /\ calls' = (calls (-) One(c)) (+) One([c EXCEPT !.pc = "deleteUser"])
                /\ session' = session
                /\ seen' = [Saw("logout") EXCEPT !.from = c.from]
           ELSE /\ secure' = secure
                /\ LogoutEnds(c)
                /\ seen' = LogoutSeen(c, SecureError)
    /\ UNCHANGED <<screenVars, classVars, viewVars>>

\* logout, lines 86-91: deleteItemAsync('user') settles
Auth_logout_user ==
    /\ \E c \in BagToSet(calls), o \in SecureOutcomes :
        /\ c.op = "logout" /\ c.pc = "deleteUser"
        /\ secure' = IF o = "ok" THEN [secure EXCEPT !.user = None] ELSE secure
        /\ LogoutEnds(c)
        /\ seen' = LogoutSeen(c, IF o = "ok" THEN None ELSE SecureError)
    /\ UNCHANGED <<screenVars, classVars, viewVars>>

\* any other request of services/api.ts (lines 73-139) a screen or a store
\* starts once the store is loaded
Api_request ==
    /\ ~session.isLoading
    /\ seen.started < MaxCalls
    /\ calls' = calls (+) One([op |-> "request", pc |-> "api"])
    /\ seen' = [Saw("request") EXCEPT !.started = @ + 1]
    /\ UNCHANGED <<session, secure, screenVars, classVars, viewVars>>

\* the request settles; a rejection passes the interceptor, api.ts 34-46
Api_response ==
    /\ \E c \in BagToSet(calls), o \in RequestOutcomes :
        /\ c.op = "request"
        /\ LET o1 == [Saw(c.op) EXCEPT !.res = o]
           IN IF o.kind = "data"
              THEN /\ calls' = calls (-) One(c)
                   /\ seen' = [o1 EXCEPT !.done = {c.op}, !.result = "resolved"]
              ELSE /\ calls' = (calls (-) One(c)) (+) Intercepted(o)
                   /\ seen' = [Rejected(o1, c, interceptorMessage(o))
                                 EXCEPT !.launched = interceptorLogsOut(o)]
    /\ UNCHANGED <<session, secure, screenVars, classVars, viewVars>>

\* the user after a change of the profile (screens/EditProfileScreen.tsx
\* lines 66-72) or of the face image (screens/UpdateFaceScreen.tsx line 80)
Edited(u) == IF u \in {"ann", "ann2"} THEN "ann2" ELSE "bob2"

\* updateUser, lines 95-98, up to its await: setItemAsync('user', ...) is
\* issued with the text of the user it was given
UpdateUserCall(updatedUserData) ==
    [op |-> "updateUser", pc |-> "setUser", data |-> updatedUserData]

\* updateUser, line 99: set({ user: updatedUserData })
UserUpdated_authenticates(s, updatedUserData) ==
    [s EXCEPT !.user = updatedUserData, !.isAuthenticated = TRUE]

UserUpdated(s, updatedUserData) == [s EXCEPT !.user = updatedUserData]

\* EditProfileScreen.tsx line 66 / UpdateFaceScreen.tsx line 72: a screen of
\* the authenticated stack sends the change; `user` is the user the screen
\* rendered with
Auth_updateProfile ==
    /\ ~session.isLoading /\ session.isAuthenticated
    /\ seen.started < MaxCalls
    /\ calls' = calls (+) One([op |-> "updateProfile", pc |-> "api",
                               user |-> session.user])
    /\ seen' = [Saw("updateProfile") EXCEPT !.started = @ + 1]
    /\ UNCHANGED <<session, secure, screenVars, classVars, viewVars>>

\* EditProfileScreen.tsx lines 75-80 / UpdateFaceScreen.tsx lines 79-81: the
\* request settles; with a body the screen calls updateUser and does not
\* await it; a rejection passes the interceptor, api.ts 34-46
Auth_updateProfile_response ==
    /\ \E c \in BagToSet(calls), o \in RequestOutcomes :
        /\ c.op = "updateProfile"
        /\ LET o1 == [Saw(c.op) EXCEPT !.res = o]
           IN IF o.kind = "data"
              THEN /\ calls' = (calls (-) One(c)) (+) One(UpdateUserCall(Edited(c.user)))
                   /\ seen' = [o1 EXCEPT !.done = {c.op}, !.result = "resolved"]
              ELSE /\ calls' = (calls (-) One(c)) (+) Intercepted(o)
                   /\ seen' = [Rejected(o1, c, interceptorMessage(o))
                                 EXCEPT !.launched = interceptorLogsOut(o)]
    /\ UNCHANGED <<session, secure, screenVars, classVars, viewVars>>

\* updateUser, lines 98-103: setItemAsync('user', ...) settles; a throw is
\* caught and logged
Auth_updateUser_user ==
    /\ \E c \in BagToSet(calls), o \in SecureOutcomes :
        /\ c.op = "updateUser" /\ c.pc = "setUser"
        /\ calls' = calls (-) One(c)
        /\ LET text == JsonStringify(c.data)
               o1 == [Saw(c.op) EXCEPT !.done = {c.op}, !.result = "resolved"]
           IN IF o = "ok"
              THEN /\ secure' = [secure EXCEPT !.user = text]
                   /\ session' = UserUpdated(session, c.data)
                   /\ seen' = [o1 EXCEPT !.wrote = << <<"user", text>> >>]
              ELSE /\ secure' = secure
                   /\ session' = session
                   /\ seen' = [o1 EXCEPT !.raised = SecureError, !.threw = TRUE]
    /\ UNCHANGED <<screenVars, classVars, viewVars>>

\* the session store loaded, no call pending
AuthIdle ==
    /\ session = [SessionInit EXCEPT !.isLoading = FALSE]
    /\ secure = [token |-> None, user |-> None]
    /\ calls = EmptyBag
    /\ seen = EmptySeen

\* no screen of the liveness flow is mounted
ScreenIdle ==
    /\ variant = None
    /\ mounted = FALSE
    /\ auto = AutoInit
    /\ manual = ManualInit
    /\ tasks = EmptyBag
    /\ os = [camera |-> "denied", location |-> "denied"]
    /\ log = EmptyLog

-----------------------------------------------------------------------------
(* The projection card of the class details screen, unnamed/part_001 *)

MaxHeldSessions == 40  \* sessions held in a class

\* threshold = 75, the default of the prop; the screen passes none (line 244)
Threshold == 75

\* Math.floor and Math.ceil of the quotient n / d, for d > 0
Floor(n, d) == n \div d
Ceil(n, d) == 0 - ((0 - n) \div d)

\* the stats the server can report for a class
Stats ==
    { stats \in [totalAttendedSessions : 0 .. MaxHeldSessions,
                 totalHeldSessions : 0 .. MaxHeldSessions] :
        stats.totalAttendedSessions <= stats.totalHeldSessions }

NoProjection == [status |-> None, msg |-> <<>>]

getProjection_strict(attended, total, threshold) ==
    LET held == IF total = 0 THEN 1 ELSE total
    IN  IF attended * 100 > threshold * held
        THEN LET buffer == Floor(attended * 100 - threshold * total, threshold)
             IN  IF buffer <= 0
                 THEN [status |-> "warning", msg |-> <<"edge">>]
                 ELSE [status |-> "safe", msg |-> <<"miss", buffer>>]
        ELSE LET needed == Ceil(threshold * total - attended * 100,
                                100 - threshold)
             IN  [status |-> "danger", msg |-> <<"attend", needed>>]

getProjection_ceil(attended, total, threshold) ==
    LET held == IF total = 0 THEN 1 ELSE total
    IN  IF attended * 100 >= threshold * held
        THEN LET buffer == Ceil(attended * 100 - threshold * total, threshold)
             IN  IF buffer <= 0
                 THEN [status |-> "warning", msg |-> <<"edge">>]
                 ELSE [status |-> "safe", msg |-> <<"miss", buffer>>]
        ELSE LET needed == Ceil(threshold * total - attended * 100,
                                100 - threshold)
             IN  [status |-> "danger", msg |-> <<"attend", needed>>]

\* getProjection, lines 86-105.  The code computes in doubles; the model
\* computes the same quotients over the integers:
\*   currentPct >= threshold   is  attended / (total || 1) * 100 >= threshold,
\*   maxTotal - total          is  (100 * attended - threshold * total) / threshold,
\*   the argument of Math.ceil is  (threshold * total - 100 * attended) / (100 - threshold).
\* With threshold 75 the doubles 0.75 and 0.25 are exact, and for counts of
\* this size no rounded quotient reaches the next integer or the threshold.
\* msg is the text's kind and the count the template puts into it.
getProjection(attended, total, threshold) ==
    LET held == IF total = 0 THEN 1 ELSE total
    IN  IF attended * 100 >= threshold * held
        THEN LET buffer == Floor(attended * 100 - threshold * total, threshold)
             IN  IF buffer <= 0
                 THEN [status |-> "warning", msg |-> <<"edge">>]
                 ELSE [status |-> "safe", msg |-> <<"miss", buffer>>]
        ELSE LET needed == Ceil(threshold * total - attended * 100,
                                100 - threshold)
             IN  [status |-> "danger", msg |-> <<"attend", needed>>]

\* ProjectionCard renders: const projection = getProjection(), line 107
Card_render ==
    /\ card.projection = NoProjection
    /\ card' = [card EXCEPT !.projection =
                   getProjection(card.stats.totalAttendedSessions,
                                 card.stats.totalHeldSessions, Threshold)]
    /\ UNCHANGED <<screenVars, storeVars, scan>>

\* the query refetches and the card gets the stats of the server, line 147
Card_refetch ==
    /\ card.projection # NoProjection
    /\ \E stats \in Stats :
          /\ stats.totalHeldSessions \in
                { card.stats.totalHeldSessions, card.stats.totalHeldSessions + 1 }
          /\ stats.totalAttendedSessions \in
                { card.stats.totalAttendedSessions,
                  card.stats.totalAttendedSessions + 1 }
          /\ stats # card.stats
          /\ card' = [stats |-> stats, projection |-> NoProjection]
    /\ UNCHANGED <<screenVars, storeVars, scan>>

\* the class details screen is not on the stack
CardIdle ==
    card = [stats |-> [totalAttendedSessions |-> 0, totalHeldSessions |-> 0],
            projection |-> NoProjection]

-----------------------------------------------------------------------------
(* The QR scan screen: two versions, unnamed/part_003 and unnamed/part_004 *)

MaxScanEvents == 2  \* barcodes the camera reports
MaxScanTaps == 2    \* taps on the screen's buttons and on the tab bar

ScanParts == {"part_003", "part_004"}

\* the text of a scanned code
QrCodes == {"garbage", "null", "{}", "{token:t1,scheduleId:s1}", "{token:t2}"}

\* JSON.parse(data): a SyntaxError, the value null, or an object with the
\* fields the screen reads (None is undefined)
ParseQr(data) ==
    CASE data = "{token:t1,scheduleId:s1}" ->
             [kind |-> "object", token |-> "t1", scheduleId |-> "s1"]
      [] data = "{token:t2}" ->
             [kind |-> "object", token |-> "t2", scheduleId |-> None]
      [] data = "{}" -> [kind |-> "object", token |-> None, scheduleId |-> None]
      [] data = "null" -> [kind |-> "null", token |-> None, scheduleId |-> None]
      [] OTHER -> [kind |-> "SyntaxError", token |-> None, scheduleId |-> None]

\* what qr.validate resolves to, or the Error it rejects with
NoValidation == [kind |-> "none", valid |-> FALSE, classId |-> None, message |-> None]
ValidateResponses ==
    { [NoValidation EXCEPT !.kind = "ok", !.valid = TRUE, !.classId = "c1"],
      [NoValidation EXCEPT !.kind = "ok", !.message = "QR code has expired"],
      [NoValidation EXCEPT !.kind = "ok"],
      [NoValidation EXCEPT !.kind = "error", !.message = "Network Error"] }

EmptyScanNote ==
    [op |-> None, data |-> None, ignored |-> FALSE, busy |-> FALSE,
     sent |-> FALSE, token |-> None, response |-> NoValidation]

\* number of pending tasks of kind k
ScanPending(s, k) ==
    LET ts == {t \in BagToSet(s.tasks) : t.k = k}
        RECURSIVE Sum(_)
        Sum(S) == IF S = {} THEN 0
                  ELSE LET t == CHOOSE x \in S : TRUE
                       IN CopiesIn(t, s.tasks) + Sum(S \ {t})
    IN Sum(ts)

\* closure: the state value the pending function closed over
ScanTask(k, data, token, response, closure) ==
    [k |-> k, data |-> data, token |-> token, response |-> response,
     closure |-> closure]

\* checkPermissions() up to its await; it closes over cameraPermission
CheckTask(s) == ScanTask("check", None, None, NoValidation, s.cameraPermission)

\* the callback of useFocusEffect: part_003 lines 67-79, part_004 lines 83-98
FocusEffect(s) ==
    [s EXCEPT !.scanStatus = "scanning", !.message = "", !.cameraActive = TRUE,
              !.lock = FALSE, !.tasks = @ (+) One(CheckTask(s))]

\* the render after a state update: the focus effect runs again when the
\* screen is focused and one of its dependencies changed
ScanCommit(old, new) ==
    IF new.isFocused /\ (new.cameraPermission # old.cameraPermission
                         \/ new.permissionStatus # old.permissionStatus)
    THEN FocusEffect(new) ELSE new

\* the screen is mounted and focused; the first focus effect has run
ScanMounted(part, osHeld) ==
    [part |-> part, isFocused |-> TRUE, os |-> osHeld,
     cameraPermission |-> None, permissionStatus |-> "checking",
     scanStatus |-> "scanning", message |-> "", cameraActive |-> TRUE,
     lock |-> FALSE,
     tasks |-> One(ScanTask("hook", None, None, NoValidation, None))
               (+) One(ScanTask("check", None, None, NoValidation, None)),
     nav |-> <<>>, events |-> 0, taps |-> 0, last |-> EmptyScanNote]

ScanStep(new, note) ==
    /\ scan' = [ScanCommit(scan, new) EXCEPT !.last = note]
    /\ UNCHANGED <<screenVars, storeVars, card>>

ScanNote(op) == [EmptyScanNote EXCEPT !.op = op]

Granted(b) == IF b THEN "granted" ELSE "denied"

\* useCameraPermissions reads the permission after the mount
Scan_hook ==
    \E t \in BagToSet(scan.tasks) :
        /\ t.k = "hook"
        /\ ScanStep([scan EXCEPT !.tasks = @ (-) One(t),
                                 !.cameraPermission = Granted(scan.os.camera)],
                    ScanNote("hook"))

\* checkPermissions after its await: part_003 lines 57-63, part_004 lines 66-72
Scan_checkPermissions ==
    \E t \in BagToSet(scan.tasks) :
        /\ t.k = "check"
        /\ ScanStep([scan EXCEPT !.tasks = @ (-) One(t),
                                 !.permissionStatus =
                                     Granted(t.closure = "granted"
                                             /\ scan.os.location)],
                    ScanNote("check"))

\* requestPermissions up to the answer of the camera prompt
Scan_requestPermissions ==
    /\ scan.isFocused
    /\ scan.permissionStatus = "denied"
    /\ scan.taps < MaxScanTaps
    /\ \E answer \in {TRUE} \cup {scan.os.camera} :
          ScanStep([scan EXCEPT !.taps = @ + 1,
                                !.os.camera = answer,
                                !.cameraPermission = Granted(answer),
                                !.tasks = @ (+) One(ScanTask("location", None,
                                             None, NoValidation,
                                             scan.cameraPermission))],
                   ScanNote("request"))

\* requestPermissions after the location prompt: it calls the checkPermissions
\* of the render in which the button was pressed
Scan_requestLocation ==
    \E t \in BagToSet(scan.tasks) :
        /\ t.k = "location"
        /\ \E answer \in {TRUE} \cup {scan.os.location} :
              ScanStep([scan EXCEPT !.os.location = answer,
                                    !.tasks = (@ (-) One(t))
                                        (+) One([t EXCEPT !.k = "check"])],
                       ScanNote("location"))

\* the catch block of handleBarCodeScanned: part_003 lines 116-120,
\* part_004 lines 152-157
ScanFailed(s, message, fallback) ==
    [s EXCEPT !.scanStatus = "error", !.message = OrElse(message, fallback),
              !.lock = IF s.part = "part_004" THEN FALSE ELSE @]

\* the guard of handleBarCodeScanned: part_003 line 90, part_004 line 104
ScanLocked(s, scanStatus) ==
    s.lock \/ (s.part = "part_004" /\ scanStatus # "scanning")

\* handleBarCodeScanned up to its await; scanStatus is the one of the render
\* that created the handler
Scanned(s, data, scanStatus) ==
    IF ScanLocked(s, scanStatus) THEN s
    ELSE LET qrData == ParseQr(data)
             busy == [s EXCEPT !.lock = TRUE,
                               !.scanStatus = IF s.part = "part_003"
                                              THEN "loading" ELSE "processing",
                               !.message = IF s.part = "part_003"
                                           THEN "Verifying QR Code..." ELSE @]
         IN  CASE qrData.kind = "SyntaxError" ->
                      ScanFailed(busy, IF s.part = "part_003"
                                       THEN "Invalid QR Code. Not valid JSON."
                                       ELSE "Invalid QR Format.", None)
               [] qrData.kind = "null" ->
                      ScanFailed(busy, "Cannot read property 'token' of null", None)
               [] qrData.kind = "object" /\ Falsy(qrData.token) ->
                      ScanFailed(busy, IF s.part = "part_003"
                                       THEN "QR code missing required token"
                                       ELSE "Invalid Class Token.", None)
               [] OTHER ->
                      [busy EXCEPT !.tasks = @ (+)
                          One(ScanTask("validate", data, qrData.token,
                                       NoValidation, None))]

\* a scan is being processed
ScanBusy(s) ==
    s.scanStatus \in {"loading", "processing"} \/ ScanPending(s, "validate") > 0

ScannedNote(s, data, scanStatus) ==
    [EmptyScanNote EXCEPT !.op = "scan", !.data = data,
        !.ignored = ScanLocked(s, scanStatus),
        !.busy = ScanBusy(s),
        !.sent = ScanPending(Scanned(s, data, scanStatus), "validate")
                     > ScanPending(s, "validate")]

\* the CameraView is on screen and passes the handler: part_003 lines 177-185,
\* part_004 lines 279-284
ScanListening(s) ==
    /\ s.permissionStatus = "granted"
    /\ s.isFocused
    /\ s.cameraActive
    /\ s.scanStatus = "scanning"

\* the camera reports a code, and possibly the code of the next frame before
\* the render that follows is committed: both reach the same handler
Scan_handleBarCodeScanned ==
    /\ ScanListening(scan)
    /\ scan.events < MaxScanEvents
    /\ \E data \in QrCodes :
          ScanStep([Scanned(scan, data, scan.scanStatus) EXCEPT !.events = @ + 1],
                   ScannedNote(scan, data, scan.scanStatus))

Scan_handleBarCodeScanned_twice ==
    /\ ScanListening(scan)
    /\ scan.events + 2 <= MaxScanEvents
    /\ \E data \in QrCodes, next \in QrCodes :
          LET first == Scanned(scan, data, scan.scanStatus)
          IN  ScanStep([Scanned(first, next, scan.scanStatus)
                           EXCEPT !.events = @ + 2],
                       ScannedNote(first, next, scan.scanStatus))

\* navigation.navigate('FaceLiveness', { classId, scheduleId }); the stack
\* screen covers the tabs
Navigated(s, t, response) ==
    [s EXCEPT !.isFocused = FALSE,
              !.nav = Append(@, [classId |-> response.classId,
                                 scheduleId |-> ParseQr(t.data).scheduleId])]

ValidationFallback(s) ==
    IF s.part = "part_003" THEN "Invalid or expired QR code."
    ELSE "Session expired or invalid."

\* handleBarCodeScanned after its await: part_003 lines 106-120,
\* part_004 lines 132-157
Validated(s, t, response) ==
    IF response.kind = "error"
    THEN ScanFailed(s, response.message,
                    IF s.part = "part_003" THEN "An unknown error occurred."
                    ELSE "Failed to verify QR code.")
    ELSE IF ~response.valid
    THEN ScanFailed(s, response.message, ValidationFallback(s))
    ELSE IF s.part = "part_003" THEN Navigated(s, t, response)
    ELSE [s EXCEPT !.scanStatus = "success", !.cameraActive = FALSE,
                   !.tasks = @ (+) One([t EXCEPT !.k = "navigate",
                                                 !.response = response])]

Scan_validate_response ==
    \E t \in BagToSet(scan.tasks), response \in ValidateResponses :
        /\ t.k = "validate"
        /\ ScanStep(Validated([scan EXCEPT !.tasks = @ (-) One(t)], t, response),
                    [EmptyScanNote EXCEPT !.op = "validated", !.data = t.data,
                        !.token = t.token, !.response = response])

\* the setTimeout of part_004 lines 146-151
Scan_navigate ==
    \E t \in BagToSet(scan.tasks) :
        /\ t.k = "navigate"
        /\ ScanStep(Navigated([scan EXCEPT !.tasks = @ (-) One(t)], t, t.response),
                    [EmptyScanNote EXCEPT !.op = "navigate", !.data = t.data,
                        !.token = t.token, !.response = t.response])

\* 'Scan Again' of part_003 (shown unless scanning, lines 236-249) and
\* handleRetry of part_004 ('Try Again', shown in the error status)
Scan_handleRetry ==
    /\ scan.isFocused
    /\ scan.permissionStatus = "granted"
    /\ IF scan.part = "part_003" THEN scan.scanStatus # "scanning"
       ELSE scan.scanStatus = "error"
    /\ scan.taps < MaxScanTaps
    /\ ScanStep([scan EXCEPT !.taps = @ + 1, !.scanStatus = "scanning",
                             !.message = "", !.lock = FALSE],
                ScanNote("retry"))

\* the user opens another tab
Scan_blur ==
    /\ scan.isFocused
    /\ scan.taps < MaxScanTaps
    /\ ScanStep([scan EXCEPT !.taps = @ + 1, !.isFocused = FALSE],
                ScanNote("blur"))

\* the user comes back to the tab, or closes the screen that covered it
Scan_focus ==
    /\ ~scan.isFocused
    /\ scan.part # None
    /\ scan.taps < MaxScanTaps
    /\ ScanStep(FocusEffect([scan EXCEPT !.taps = @ + 1, !.isFocused = TRUE]),
                ScanNote("focus"))

\* the scan tab has not been opened
ScanIdle ==
    scan = [ScanMounted(None, [camera |-> FALSE, location |-> FALSE])
               EXCEPT !.isFocused = FALSE, !.tasks = EmptyBag]

ViewIdle == CardIdle /\ ScanIdle

-----------------------------------------------------------------------------
(* The class store, store/useClassStore.ts *)

MaxClassCalls == 3  \* store actions that are called and moves of the clock

\* CACHE_DURATION = 5 * 60 * 1000 milliseconds, line 28
CacheDuration == 300000

\* by how much Date.now() has moved between two steps, in milliseconds
Elapse == {CacheDuration - 1, CacheDuration}

\* the classes a caller names in enrollInClass / unenrollFromClass
ClassIds == {"c1", "c2"}

\* EnrolledClass[] as the server may send it; only `_id` is consumed
EnrolledLists ==
    {<<>>, <<[_id |-> "c1"], [_id |-> "c2"], [_id |-> "c3"]>>,
     <<[_id |-> "c3"], [_id |-> "c1"], [_id |-> "c2"]>>}

\* AvailableClass[] as the server may send it
AvailableLists == {<<>>, <<[_id |-> "c2"]>>}

\* what a rejected request of the class endpoints settles with
ClassErrors == {[kind |-> "network"]}

\* initial state, lines 33-37; lastUpdated is a timestamp, 0 stands for null
\* (both are falsy in line 44, and Date.now() is never 0)
ClassStateInit == [enrolledClasses |-> <<>>, availableClasses |-> <<>>,
                   isLoading |-> FALSE, error |-> None, lastUpdated |-> 0]

\* observation of the last step of the class store: the action, whether the
\* step called it or ended it, its arguments, whether it was served from the
\* cache, the API calls the ended action made in their order, what it
\* returned, and the number of actions called and of clock moves together;
\* and the isAuthenticated with which the effect of Navigation.tsx lines
\* 74-78 ran last (auth)
EmptyNoted == [op |-> None, ends |-> FALSE, force |-> FALSE, id |-> None,
               cached |-> FALSE, trail |-> <<>>, returned |-> None,
               failed |-> FALSE, started |-> 0, auth |-> FALSE]

Noted(op) == [EmptyNoted EXCEPT !.op = op, !.started = noted.started,
                                !.auth = noted.auth]

\* line 44: the early return of fetchEnrolledClasses
ServedFromCache_inclusive(forceRefresh, s, now) ==
    /\ ~forceRefresh
    /\ Len(s.enrolledClasses) > 0
    /\ s.lastUpdated # 0
    /\ now - s.lastUpdated <= CacheDuration

ServedFromCache_unforced(forceRefresh, s, now) ==
    /\ Len(s.enrolledClasses) > 0
    /\ s.lastUpdated # 0
    /\ now - s.lastUpdated < CacheDuration

ServedFromCache(forceRefresh, s, now) ==
    /\ ~forceRefresh
    /\ Len(s.enrolledClasses) > 0
    /\ s.lastUpdated # 0
    /\ now - s.lastUpdated < CacheDuration

\* set({ isLoading: true, error: null }), lines 49, 59, 69, 83
Loading(s) == [s EXCEPT !.isLoading = TRUE, !.error = None]

\* the catch blocks, lines 54, 64, 77, 93
Failed(s, err, fallback) ==
    [s EXCEPT !.error = OrElse(interceptorMessage(err), fallback), !.isLoading = FALSE]

\* line 88: state.enrolledClasses.filter((c) => c._id !== classId)
Filtered_head(list, classId) == IF list = <<>> THEN <<>> ELSE Tail(list)

Filtered(list, classId) == SelectSeq(list, LAMBDA c : c._id # classId)

\* a pending request of the store
Request(op, now, id, parent, trail) ==
    [op |-> op, now |-> now, id |-> id, parent |-> parent, trail |-> trail]

\* Date.now() has moved on
Class_elapse ==
    /\ noted.started < MaxClassCalls
    /\ \E d \in Elapse : clock' = clock + d
    /\ noted' = [Noted("clock") EXCEPT !.started = @ + 1]
    /\ UNCHANGED <<classes, pending, screenVars, authVars, viewVars>>

\* fetchEnrolledClasses(forceRefresh), lines 39-51, up to its await
\* (ClassesScreen.tsx 127, 135, 143; EditProfileScreen.tsx 450, 464)
Class_fetchEnrolledClasses ==
    /\ noted.started < MaxClassCalls
    /\ \E forceRefresh \in BOOLEAN :
        LET o == [Noted("fetchEnrolledClasses") EXCEPT !.force = forceRefresh,
                                                       !.started = @ + 1]
        IN IF ServedFromCache(forceRefresh, classes, clock)
           THEN /\ classes' = classes
                /\ pending' = pending
                /\ noted' = [o EXCEPT !.ends = TRUE, !.cached = TRUE]
           ELSE /\ classes' = Loading(classes)
                /\ pending' = pending (+)
                     One(Request("getEnrolled", clock, None, None, <<"getEnrolled">>))
                /\ noted' = o
    /\ UNCHANGED <<clock, screenVars, authVars, viewVars>>

\* fetchAvailableClasses(forceRefresh), lines 58-61, up to its await
Class_fetchAvailableClasses ==
    /\ noted.started < MaxClassCalls
    /\ \E forceRefresh \in BOOLEAN :
        /\ classes' = Loading(classes)
        /\ pending' = pending (+)
             One(Request("getAvailable", clock, None, None, <<"getAvailable">>))
        /\ noted' = [Noted("fetchAvailableClasses") EXCEPT !.force = forceRefresh,
                                                           !.started = @ + 1]
    /\ UNCHANGED <<clock, screenVars, authVars, viewVars>>

\* the state and the request with which fetchAvailableClasses(true) starts
\* inside enrollInClass, line 74
ThenAvailable(s, t) ==
    /\ classes' = Loading(s)
    /\ pending' = (pending (-) One(t)) (+)
         One(Request("getAvailable", clock, t.id, t.parent,
                     Append(t.trail, "getAvailable")))

\* lines 51-55: classes.getEnrolled() settles; inside enrollInClass the
\* call of fetchAvailableClasses follows (line 74)
Class_getEnrolled ==
    /\ \E t \in BagToSet(pending) :
        /\ t.op = "getEnrolled"
        /\ \E ok \in BOOLEAN, data \in EnrolledLists, err \in ClassErrors :
            LET s == IF ok
                     THEN [classes EXCEPT !.enrolledClasses = data,
                                          !.lastUpdated = t.now, !.isLoading = FALSE]
                     ELSE Failed(classes, err, "Failed to fetch classes")
            IN IF t.parent = "enrollInClass"
               THEN /\ ThenAvailable(s, t)
                    /\ noted' = [Noted("fetchEnrolledClasses") EXCEPT !.failed = ~ok]
               ELSE /\ classes' = s
                    /\ pending' = pending (-) One(t)
                    /\ noted' = [Noted("fetchEnrolledClasses")
                                   EXCEPT !.ends = TRUE, !.trail = t.trail,
                                          !.failed = ~ok]
    /\ UNCHANGED <<clock, screenVars, authVars, viewVars>>

\* lines 61-65: classes.getAvailable() settles; inside enrollInClass the
\* action then returns true (line 75)
Class_getAvailable ==
    /\ \E t \in BagToSet(pending) :
        /\ t.op = "getAvailable"
        /\ pending' = pending (-) One(t)
        /\ \E ok \in BOOLEAN, data \in AvailableLists, err \in ClassErrors :
            /\ classes' = IF ok
                          THEN [classes EXCEPT !.availableClasses = data,
                                               !.isLoading = FALSE]
                          ELSE Failed(classes, err, "Failed to fetch available classes")
            /\ noted' = IF t.parent = "enrollInClass"
                        THEN [Noted("enrollInClass")
                                EXCEPT !.ends = TRUE, !.id = t.id, !.trail = t.trail,
                                       !.returned = "true"]
                        ELSE [Noted("fetchAvailableClasses")
                                EXCEPT !.ends = TRUE, !.trail = t.trail, !.failed = ~ok]
    /\ UNCHANGED <<clock, screenVars, authVars, viewVars>>

\* enrollInClass(classId), lines 68-71, up to its await
Class_enrollInClass ==
    /\ noted.started < MaxClassCalls
    /\ \E classId \in ClassIds :
        /\ classes' = Loading(classes)
        /\ pending' = pending (+)
             One(Request("enrollInClass", clock, classId, "enrollInClass",
                         <<"enrollInClass">>))
        /\ noted' = [Noted("enrollInClass") EXCEPT !.id = classId, !.started = @ + 1]
    /\ UNCHANGED <<clock, screenVars, authVars, viewVars>>

\* lines 71-79: classes.enrollInClass(classId) settles; on success
\* fetchEnrolledClasses(true) runs up to its await (lines 40-51)
Class_enrollInClass_response ==
    /\ \E t \in BagToSet(pending) :
        /\ t.op = "enrollInClass"
        /\ \E ok \in BOOLEAN, err \in ClassErrors :
            IF ~ok
            THEN /\ classes' = Failed(classes, err, "Enrollment failed")
                 /\ pending' = pending (-) One(t)
                 /\ noted' = [Noted("enrollInClass")
                                EXCEPT !.ends = TRUE, !.id = t.id, !.trail = t.trail,
                                       !.returned = "false", !.failed = TRUE]
            ELSE /\ noted' = [Noted("enrollInClass") EXCEPT !.id = t.id]
                 /\ IF ServedFromCache(TRUE, classes, clock)
                    THEN ThenAvailable(classes, t)
                    ELSE /\ classes' = Loading(classes)
                         /\ pending' = (pending (-) One(t)) (+)
                              One(Request("getEnrolled", clock, t.id, t.parent,
                                          Append(t.trail, "getEnrolled")))
    /\ UNCHANGED <<clock, screenVars, authVars, viewVars>>

\* unenrollFromClass(classId), lines 82-85, up to its await
Class_unenrollFromClass ==
    /\ noted.started < MaxClassCalls
    /\ \E classId \in ClassIds :
        /\ classes' = Loading(classes)
        /\ pending' = pending (+)
             One(Request("unenrollFromClass", clock, classId, None,
                         <<"unenrollFromClass">>))
        /\ noted' = [Noted("unenrollFromClass") EXCEPT !.id = classId,
                                                       !.started = @ + 1]
    /\ UNCHANGED <<clock, screenVars, authVars, viewVars>>

\* lines 85-95: classes.unenrollFromClass(classId) settles
Class_unenrollFromClass_response ==
    /\ \E t \in BagToSet(pending) :
        /\ t.op = "unenrollFromClass"
        /\ pending' = pending (-) One(t)
        /\ \E ok \in BOOLEAN, err \in ClassErrors :
            /\ classes' = IF ok
                          THEN [classes EXCEPT
                                  !.enrolledClasses = Filtered(@, t.id),
                                  !.isLoading = FALSE]
                          ELSE Failed(classes, err, "Unenrollment failed")
            /\ noted' = [Noted("unenrollFromClass")
                           EXCEPT !.ends = TRUE, !.id = t.id, !.trail = t.trail,
                                  !.returned = IF ok THEN "true" ELSE "false",
                                  !.failed = ~ok]
    /\ UNCHANGED <<clock, screenVars, authVars, viewVars>>

\* clearData, line 99
ClearedData(s) ==
    [s EXCEPT !.enrolledClasses = <<>>, !.availableClasses = <<>>,
              !.lastUpdated = 0, !.error = None]

\* clearData, lines 98-100, called when the session ends (Navigation.tsx 76)
Class_clearData ==
    /\ classes # ClearedData(classes)
    /\ classes' = ClearedData(classes)
    /\ noted' = Noted("clearData")
    /\ UNCHANGED <<clock, pending, screenVars, authVars, viewVars>>

\* the class store as created, no request pending
ClassIdle ==
    /\ classes = ClassStateInit
    /\ clock = 1
    /\ pending = EmptyBag
    /\ noted = EmptyNoted

ClassInit ==
    /\ ScreenIdle
    /\ ViewIdle
    /\ AuthIdle
    /\ ClassIdle

ClassNext ==
    \/ Class_elapse
    \/ Class_fetchEnrolledClasses
    \/ Class_fetchAvailableClasses
    \/ Class_getEnrolled
    \/ Class_getAvailable
    \/ Class_enrollInClass
    \/ Class_enrollInClass_response
    \/ Class_unenrollFromClass
    \/ Class_unenrollFromClass_response
    \/ Class_clearData

SpecClass == ClassInit /\ [][ClassNext]_vars

-----------------------------------------------------------------------------
(* The specifications of the session store *)

\* the process starts: the store as created, whatever SecureStore holds
AuthInit ==
    /\ ScreenIdle
    /\ ViewIdle
    /\ ClassIdle
    /\ session = SessionInit
    /\ secure \in SecureStates
    /\ calls = EmptyBag
    /\ seen = EmptySeen

AuthNext ==
    \/ Auth_checkAuthState
    \/ Auth_checkAuthState_token
    \/ Auth_checkAuthState_user
    \/ Auth_login
    \/ Auth_login_response
    \/ Auth_login_token
    \/ Auth_login_user
    \/ Auth_logout
    \/ Auth_logout_token
    \/ Auth_logout_user
    \/ Api_request
    \/ Api_response

SpecAuth == AuthInit /\ [][AuthNext]_vars

\* a SecureStore call that was issued settles, so a logout that has started
\* runs to its end
SpecAuthFair ==
    /\ SpecAuth
    /\ WF_vars(Auth_logout_token)
    /\ WF_vars(Auth_logout_user)

\* the session store with the screens that change the profile
SessionNext ==
    \/ Auth_checkAuthState
    \/ Auth_checkAuthState_token
    \/ Auth_checkAuthState_user
    \/ Auth_login
    \/ Auth_login_response
    \/ Auth_login_token
    \/ Auth_login_user
    \/ Auth_logout
    \/ Auth_logout_token
    \/ Auth_logout_user
    \/ Api_request
    \/ Api_response
    \/ Auth_updateProfile
    \/ Auth_updateProfile_response
    \/ Auth_updateUser_user

SpecSession == AuthInit /\ [][SessionNext]_vars

-----------------------------------------------------------------------------
(* The session and the class store under navigation/Navigation.tsx *)

\* Navigation has rendered with the session as it is and its effect has run
Rendered == noted.auth = session.isAuthenticated

\* Navigation.tsx lines 74-78: isAuthenticated changed, the effect runs and
\* calls clearData when the session is not authenticated
Nav_authEffect ==
    /\ ~Rendered
    /\ classes' = IF ~session.isAuthenticated THEN ClearedData(classes) ELSE classes
    /\ noted' = [Noted(IF ~session.isAuthenticated THEN "clearData" ELSE "effect")
                   EXCEPT !.auth = session.isAuthenticated]
    /\ UNCHANGED <<clock, pending, screenVars, authVars, viewVars>>

\* the profile tab is rendered while the session is authenticated
Nav_logout == Rendered /\ Auth_logout

\* the classes tab and the screens that enroll are rendered while the
\* session is authenticated (ClassesScreen.tsx 127, 135, 143)
Nav_fetchEnrolledClasses ==
    /\ Rendered /\ session.isAuthenticated
    /\ Class_fetchEnrolledClasses

Nav_enrollInClass ==
    /\ Rendered /\ session.isAuthenticated
    /\ Class_enrollInClass

\* a user is logged in and the tabs are shown; the class store as created.
\* The specification follows this session to its end and the time after it,
\* up to the next login
NavInit ==
    /\ ScreenIdle
    /\ ViewIdle
    /\ session = AuthSuccessState([SessionInit EXCEPT !.isLoading = FALSE],
                                  [token |-> TokenOf("ann"), user |-> "ann"])
    /\ secure = [token |-> TokenOf("ann"), user |-> JsonStringify("ann")]
    /\ calls = EmptyBag
    /\ seen = [EmptySeen EXCEPT !.checks = 1]
    /\ classes = ClassStateInit
    /\ clock = 1
    /\ pending = EmptyBag
    /\ noted = [EmptyNoted EXCEPT !.auth = TRUE]

NavNext ==
    \/ Nav_logout
    \/ Auth_logout_token
    \/ Auth_logout_user
    \/ Nav_authEffect
    \/ Nav_fetchEnrolledClasses
    \/ Class_getEnrolled
    \/ Nav_enrollInClass
    \/ Class_enrollInClass_response
    \/ Class_getAvailable

SpecNav == NavInit /\ [][NavNext]_vars

\* the stores while the liveness screen is modelled: loaded and untouched
StoreIdle == AuthIdle /\ ClassIdle

-----------------------------------------------------------------------------
(* The specification of the projection card *)

\* the class details screen shows the card with the stats of some class
CardInit ==
    /\ ScreenIdle
    /\ StoreIdle
    /\ card \in [stats : Stats, projection : {NoProjection}]
    /\ ScanIdle

CardNext == Card_render \/ Card_refetch

SpecCard == CardInit /\ [][CardNext]_vars

-----------------------------------------------------------------------------
(* The specification of the QR scan screen *)

\* what the OS holds when the tab is opened
ScanOsStates ==
    { [camera |-> TRUE, location |-> TRUE], [camera |-> TRUE, location |-> FALSE],
      [camera |-> FALSE, location |-> FALSE] }

ScanInit ==
    /\ ScreenIdle
    /\ StoreIdle
    /\ CardIdle
    /\ \E part \in ScanParts, osHeld \in ScanOsStates :
          scan = ScanMounted(part, osHeld)

ScanNext ==
    \/ Scan_hook
    \/ Scan_checkPermissions
    \/ Scan_requestPermissions
    \/ Scan_requestLocation
    \/ Scan_handleBarCodeScanned
    \/ Scan_handleBarCodeScanned_twice
    \/ Scan_validate_response
    \/ Scan_navigate
    \/ Scan_handleRetry
    \/ Scan_blur
    \/ Scan_focus

SpecScan == ScanInit /\ [][ScanNext]_vars

-----------------------------------------------------------------------------
(* The liveness screen as mounted by the navigator *)

OsStates == [camera : {"granted", "denied"}, location : {"denied"}]

Init ==
    /\ variant \in {"auto", "manual"}
    /\ mounted = TRUE
    /\ auto = AutoInit
    /\ manual = ManualInit
    /\ os \in OsStates
    /\ log = [EmptyLog EXCEPT !.runs = IF variant = "manual" THEN 1 ELSE 0]
    /\ tasks = IF variant = "auto"
               THEN One([k |-> "init", at |-> "camera"]) (+) One([k |-> "mountCamera"])
               ELSE M_requestPermissions_start(None)
    /\ StoreIdle
    /\ ViewIdle

\* the flow while the user stays on the screen
Next == AutoNext \/ ManualNext

Spec == Init /\ [][Next]_vars

\* every pending timer fires and every awaited device or network call settles;
\* what the user does (pressing Start, Grant or Try Again) is left open
FlowFairness ==
    /\ WF_vars(A_init_cameraStatus) /\ WF_vars(A_init_locStatus)
    /\ WF_vars(A_init_challenges) /\ WF_vars(A_mountCameraTimer)
    /\ WF_vars(A_onCameraReady) /\ WF_vars(A_runChallengeSequence)
    /\ WF_vars(A_captureAndProcess_photo)
    /\ WF_vars(A_captureAndProcess_optimized)
    /\ WF_vars(A_advanceTimer) /\ WF_vars(A_handleSubmit_loc)
    /\ WF_vars(A_handleSubmit_res) /\ WF_vars(A_navigateTimer)
    /\ WF_vars(M_requestPermissions_camera)
    /\ WF_vars(M_requestPermissions_location)
    /\ WF_vars(M_fetchChallenges) /\ WF_vars(M_grantPermissions_settle)
    /\ WF_vars(M_countdownInterval) /\ WF_vars(M_captureChallenge_photo)
    /\ WF_vars(M_captureChallenge_optimized)
    /\ WF_vars(M_submitAttendance_location)
    /\ WF_vars(M_submitAttendance_response) /\ WF_vars(M_navigateTimer)

SpecFair == Spec /\ FlowFairness

\* the flow when the user may also leave the screen at any moment
NextLeave == AutoNext \/ ManualNext \/ A_leave \/ M_leave

SpecLeave == Init /\ [][NextLeave]_vars

-----------------------------------------------------------------------------
(* The flow as the specification names it, for either variant *)

\* the screen state in the specification's vocabulary
FlowState ==
    IF variant = "auto" THEN auto.screenState
    ELSE CASE manual.screenState = "loading" -> "initializing"
           [] manual.screenState = "challenge" -> "countdown"
           [] manual.screenState = "permission_denied" -> "error"
           [] OTHER -> manual.screenState

Challenges == IF variant = "auto" THEN auto.challenges ELSE manual.challenges

CurrentIndex == IF variant = "auto" THEN auto.currentIndex ELSE manual.currentChallengeIndex

Captured == IF variant = "auto" THEN auto.capturedData ELSE manual.capturedChallenges

ErrorText == IF variant = "auto" THEN auto.errorDetails ELSE manual.errorMessage

\* the failure is shown as a denied permission
PermissionError ==
    IF variant = "auto"
    THEN auto.screenState = "error"
         /\ auto.errorDetails = "Camera and Location permissions are required."
    ELSE manual.screenState = "permission_denied"

\* a retry action is on screen: the error view of the automatic variant
\* (lines 282-290) has the "Close" button only, the one of the manual variant
\* (ClassesScreen.tsx, lines 639-670) has "Try Again"
RetryExposed ==
    IF variant = "auto" THEN FALSE
    ELSE mounted /\ M_view(manual) = "error"

FetchPending == Pending({"fetch"}) + Cardinality({t \in BagToSet(tasks) : t.k = "init" /\ t.at = "challenges"})

FetchFailureTexts ==
    {"No verification challenges received.", "No challenges received",
     "Network Error", "Session expired. Please log in again."} \cup (ServerMessages \ {None})

CaptureFailureTexts ==
    {"Camera not ready. Please try again.", "Failed to capture. Please restart.",
     "Failed to capture photo", "Failed to process image",
     "Failed to capture image. Please try again.", DeviceError, TypeError}

-----------------------------------------------------------------------------
(* Claims *)

\* C1: when the capture that just succeeded is the N-th of a list of N
\* challenges, the captured list has exactly N entries and the flow is in
\* submitting.
C1_Claim ==
    (mounted /\ log.last \in {"captured", "captured_last"}
             /\ log.captured = Len(Challenges))
        => (Len(Captured) = Len(Challenges) /\ FlowState = "submitting")

\* C2: a challenge request that rejects, reports success=false or brings an
\* empty list puts the flow into error; ready is only entered with a
\* non-empty list; and an attempt whose request failed does not enter ready.
C2_Claim ==
    /\ [](mounted /\ log.last = "challenges_failed" => FlowState = "error")
    /\ [](FlowState = "ready" => Len(Challenges) > 0)
    /\ [][(mounted /\ FlowState = "error" /\ ErrorText \in FetchFailureTexts
              /\ log'.retries = log.retries)
            => FlowState' # "ready"]_vars

\* C3: however often the start button is pressed on one render, one
\* countdown is started and at most one camera capture is in flight.
C3_Claim ==
    /\ Pending({"seq", "interval"}) <= 1
    /\ Pending({"photo", "optimize"}) <= 1

\* C4: every attempt (the first and one per retry) issues at most one
\* geolocation read and at most one submission, and at most one submission
\* is in flight.
C4_Claim ==
    /\ log.geo <= log.retries + 1
    /\ log.submit <= log.retries + 1
    /\ Pending({"verify"}) <= 1

\* C5: while the flow waits for the next capture (ready or countdown) the
\* captured list has currentIndex entries and currentIndex is a valid index
\* into the challenge list.
C5_Claim ==
    (mounted /\ FlowState \in {"ready", "countdown"})
        => (Len(Captured) = CurrentIndex /\ CurrentIndex >= 0
            /\ CurrentIndex < Len(Challenges))

\* C6: a permission prompt that is not granted puts the flow into the
\* permission error, and as long as the camera or the location permission is
\* not granted no challenge request is in flight and no list has been loaded.
C6_Theorem ==
    /\ (mounted /\ log.last = "permission_denied") => PermissionError
    /\ (os.camera # "granted" \/ os.location # "granted")
          => (FetchPending = 0 /\ Challenges = <<>>)

C6_Witness ==
    /\ mounted /\ log.last = "permission_denied" /\ PermissionError
    /\ os.camera = "granted" /\ os.location # "granted"

\* C7: a capture step that fails (camera unavailable when the countdown ends,
\* the capture or its processing rejects or brings no image data) puts the
\* flow into error with a capture-failure text and appends nothing.
C7_Claim ==
    [][(mounted /\ log'.last \in {"capture_failed", "camera_unavailable"})
         => (FlowState' = "error" /\ ErrorText' \in CaptureFailureTexts
             /\ Captured' = Captured)]_vars

\* C8 as stated: a rejected submission puts the flow into error showing
\* exactly the message the server supplied, and the captured list is emptied.
C8_Claim ==
    (mounted /\ log.last = "rejected")
        => /\ FlowState = "error"
           /\ (log.res.kind # "network" /\ log.res.message # None)
                 => ErrorText = log.res.message
           /\ Captured = <<>>

\* the text the error view shows for a failed submission
C8_Surfaced(res) ==
    CASE res.kind = "network" -> "Network Error"
      [] res.kind = "http" /\ res.status = 401 -> "Session expired. Please log in again."
      [] res.kind = "http" /\ res.status # 401 -> res.message
      [] res.kind = "data" /\ res.message # None -> res.message
      [] OTHER -> IF variant = "auto" THEN "Verification Failed" ELSE "Verification failed"

\* C8 as amended: a rejected submission puts the flow into error; the text
\* shown is the server's message unless the status is 401 (fixed session
\* text) or there is no message (fixed fallback); the captured list is left
\* as it was.
C8_Theorem ==
    [][(mounted /\ log'.last = "rejected")
         => (FlowState' = "error" /\ ErrorText' = C8_Surfaced(log'.res)
             /\ Captured' = Captured)]_vars

C8_Witness ==
    /\ mounted /\ log.last = "rejected"
    /\ log.res.kind = "http" /\ log.res.status = 401
    /\ FlowState = "error" /\ Len(Captured) = Len(Challenges) /\ Len(Captured) > 0

\* C9: in success the captured list is empty, the flow stays in success
\* until the screen is left, and the navigation away is triggered at most
\* once.
C9_Claim ==
    /\ [][(mounted /\ FlowState = "success") => FlowState' = "success"]_vars
    /\ [](log.nav <= 1)
    /\ []((mounted /\ FlowState = "success") => Captured = <<>>)

\* C10: the error state shows a retry action; a retry empties the challenge
\* list and the captured list, sets currentIndex to 0 and re-enters
\* initializing; and the flow leaves error only by a retry.
C10_Claim ==
    /\ []((mounted /\ FlowState = "error") => RetryExposed)
    /\ [][log'.last = "retry"
            => (FlowState' = "initializing" /\ Challenges' = <<>>
                /\ CurrentIndex' = 0 /\ Captured' = <<>>)]_vars
    /\ [][(mounted /\ FlowState = "error" /\ FlowState' # "error")
            => log'.last = "retry"]_vars

-----------------------------------------------------------------------------
(* Leaving the screen while work is pending *)

\* the pending countdown timers with the ticks each has left: the sleeping
\* loop of runChallengeSequence and the intervals of startChallenge
Countdowns ==
    [t \in {u \in BagToSet(tasks) : u.k \in {"seq", "interval"}} |-> CopiesIn(t, tasks)]

\* C11: once the screen is unmounted no countdown tick fires any more (the
\* pending countdowns stay as they are) and no camera capture is issued.
C11_Claim ==
    [][~mounted => (Countdowns' = Countdowns
                    /\ Pending({"photo"})' <= Pending({"photo"}))]_vars

\* C12: once the screen is unmounted, no capture, geolocation read or network
\* call that settles changes the flow's state, and none of them leads to the
\* scheduled navigation being triggered.
C12_Claim ==
    [][~mounted => (auto' = auto /\ manual' = manual /\ log'.nav = log.nav)]_vars

-----------------------------------------------------------------------------
(* The session store *)

\* the in-memory session without its loading flag
Identity(s) == <<s.isAuthenticated, s.user, s.token>>

\* the response has both a token and a user
Complete(r) == r.kind = "data" /\ ~Falsy(r.token) /\ r.user # None

\* C13: when the login or register API call returns a response with token
\* and user and persisting does not throw, the call resolves, has written
\* the token and then the stringified user to secure storage, and sets the
\* store to isAuthenticated with exactly that token and that user.
C13_Theorem ==
    [][(seen'.by \in {"login", "register"} /\ seen'.done # {}
        /\ Complete(seen'.res) /\ seen'.raised # SecureError)
       => /\ seen'.result = "resolved"
          /\ seen'.wrote = << <<"token", seen'.res.token>>,
                              <<"user", JsonStringify(seen'.res.user)>> >>
          /\ JsonParse(secure'.user) = seen'.res.user
          /\ session' = [isAuthenticated |-> TRUE, user |-> seen'.res.user,
                         token |-> seen'.res.token,
                         isLoading |-> session.isLoading]]_vars

C13_Witness ==
    /\ seen.by = "register" /\ seen.result = "resolved"
    /\ session.isAuthenticated /\ session.user = "bob" /\ session.token = "jwt2"
    /\ secure = [token |-> "jwt2", user |-> JsonStringify("bob")]

\* the error a failing login or register meets
Failure(o) ==
    IF o.res.kind \in {"http", "network"} THEN interceptorMessage(o.res)
    ELSE IF o.res.kind = "empty" THEN TypeError
    ELSE IF ~Complete(o.res) THEN "Invalid response from server"
    ELSE SecureError

\* C14: a login or register whose API call rejects, whose response lacks
\* token or user, or whose persisting throws, ends by throwing that very
\* error to its caller, and no step of such a call changes the in-memory
\* isAuthenticated, user and token.
C14_Theorem ==
    [][seen'.by \in {"login", "register"}
       => /\ (seen'.done # {} /\ (~Complete(seen'.res) \/ seen'.raised # None))
                => (seen'.result = "rejected" /\ seen'.raised = Failure(seen')
                    /\ seen'.thrown = seen'.raised)
          /\ seen'.result # "resolved" => Identity(session') = Identity(session)]_vars

C14_Witness ==
    /\ seen.by = "login" /\ seen.result = "rejected"
    /\ seen.thrown = SecureError
    /\ seen.wrote = << <<"token", "jwt1">> >>
    /\ secure.token = "jwt1"
    /\ Identity(session) = <<FALSE, None, None>>

\* C15: every logout ends, without throwing, with user = null, token = null
\* and isAuthenticated = false, whether or not a deletion threw; a logout of
\* a store that is already logged out leaves it as it is.
C15_Theorem ==
    [][("logout" \in seen'.done)
       => /\ Identity(session') = <<FALSE, None, None>>
          /\ seen'.result = "resolved" /\ seen'.thrown = None
          /\ Identity(session) = <<FALSE, None, None>>
                => Identity(session') = Identity(session)]_vars

C15_Witness ==
    /\ seen.done = {"logout"} /\ seen.raised = SecureError /\ seen.was
    /\ Identity(session) = <<FALSE, None, None>>
    /\ secure.token # None

\* C16: checkAuthState ends with isLoading = false; with the token and the
\* user it read when both are persisted, authenticated; unauthenticated when
\* either is absent; and a read or a parse that throws starts a logout, on
\* whose end the store is logged out.
C16_Theorem ==
    [][/\ (seen'.by = "checkAuthState" /\ seen'.raised # None)
            => BagIn(LogoutCall("checkAuthState"), calls')
       /\ ("checkAuthState" \in seen'.done)
            => session' =
                 IF seen'.by = "checkAuthState"
                    /\ ~Falsy(seen'.read.token) /\ ~Falsy(seen'.read.user)
                 THEN [isAuthenticated |-> TRUE, user |-> JsonParse(seen'.read.user),
                       token |-> seen'.read.token, isLoading |-> FALSE]
                 ELSE [isAuthenticated |-> FALSE, user |-> None, token |-> None,
                       isLoading |-> FALSE]]_vars

C16_Witness ==
    /\ seen.by = "checkAuthState" /\ seen.done = {"checkAuthState"}
    /\ seen.read = [token |-> "jwt1", user |-> JsonStringify("ann")]
    /\ session = [isAuthenticated |-> TRUE, user |-> "ann", token |-> "jwt1",
                  isLoading |-> FALSE]

\* the step was a response with status 401
Unauthorized(o) == o.done # {} /\ o.res.kind = "http" /\ o.res.status = 401

\* C17: a response with status 401 to any call starts the store's logout
\* and gives the caller an error instead of data, and after it the store
\* eventually is unauthenticated.
C17_Theorem ==
    /\ [][Unauthorized(seen')
          => /\ seen'.launched /\ BagIn(LogoutCall("interceptor"), calls')
             /\ seen'.result = "rejected"
             /\ seen'.thrown = "Session expired. Please log in again."]_vars
    /\ ((Unauthorized(seen) \/ seen.launched) ~> ~session.isAuthenticated)

C17_Witness ==
    /\ Unauthorized(seen) /\ seen.by = "request"
    /\ session.isAuthenticated

-----------------------------------------------------------------------------
(* The class store *)

\* number of pending requests of the class store to the given endpoints
Requests(ops) ==
    LET ts == {t \in BagToSet(pending) : t.op \in ops}
        RECURSIVE Sum(_)
        Sum(S) == IF S = {} THEN 0
                  ELSE LET t == CHOOSE x \in S : TRUE
                       IN CopiesIn(t, pending) + Sum(S \ {t})
    IN Sum(ts)

\* the step is a call of the named store action
Called(op) == noted'.op = op /\ noted'.started = noted.started + 1

\* the step ends the named store action
Ended(op) == noted'.op = op /\ noted'.ends /\ noted'.started = noted.started

\* C18: a call of fetchEnrolledClasses makes no API call and changes no
\* state exactly when forceRefresh is false, enrolledClasses is non-empty,
\* lastUpdated is set and now - lastUpdated is below 5 minutes; in every
\* other case it calls the API.
C18_Theorem ==
    [][Called("fetchEnrolledClasses")
       => IF /\ ~noted'.force
             /\ Len(classes.enrolledClasses) > 0
             /\ classes.lastUpdated # 0
             /\ clock - classes.lastUpdated < 5 * 60 * 1000
          THEN /\ noted'.cached
               /\ classes' = classes
               /\ pending' = pending
          ELSE /\ ~noted'.cached
               /\ Requests({"getEnrolled"})' = Requests({"getEnrolled"}) + 1]_vars

C18_Witness ==
    /\ noted.op = "fetchEnrolledClasses" /\ noted.cached /\ ~noted.force
    /\ clock - classes.lastUpdated = 5 * 60 * 1000 - 1
    /\ pending = EmptyBag

\* C19: enrollInClass returns true exactly when the enroll API call
\* succeeded; a success is followed by the request for the enrolled list,
\* whatever the cache holds, then by the request for the available list; a
\* failure sets error and requests nothing.
C19_Theorem ==
    [][/\ (noted'.op = "enrollInClass" /\ noted'.started = noted.started)
            => (noted'.failed <=> (noted'.ends /\ noted'.returned = "false"))
       /\ (noted'.op = "enrollInClass" /\ noted'.started = noted.started
           /\ ~noted'.failed /\ ~noted'.ends)
            => Requests({"getEnrolled"})' = Requests({"getEnrolled"}) + 1
       /\ (Ended("enrollInClass") /\ noted'.returned = "true")
            => noted'.trail = <<"enrollInClass", "getEnrolled", "getAvailable">>
       /\ (Ended("enrollInClass") /\ noted'.returned # "true")
            => /\ noted'.returned = "false"
               /\ noted'.trail = <<"enrollInClass">>
               /\ classes'.error # None
               /\ Requests({"getEnrolled", "getAvailable"})'
                    = Requests({"getEnrolled", "getAvailable"})]_vars

C19_Witness ==
    /\ noted.op = "enrollInClass" /\ noted.ends /\ noted.returned = "true"
    /\ noted.trail = <<"enrollInClass", "getEnrolled", "getAvailable">>
    /\ Len(classes.enrolledClasses) > 0 /\ classes.lastUpdated = clock

\* the classes of a list other than classId, in the order of the list
RECURSIVE Others(_, _)
Others(list, classId) ==
    IF list = <<>> THEN <<>>
    ELSE IF Head(list)._id = classId THEN Others(Tail(list), classId)
    ELSE <<Head(list)>> \o Others(Tail(list), classId)

\* C20: when unenrollFromClass returns true, enrolledClasses holds no class
\* with that id and all its other classes in their order, and no request
\* for a list was made; when the API call fails it returns false, sets error
\* and leaves enrolledClasses as it was.
C20_Theorem ==
    [][Ended("unenrollFromClass")
       => IF noted'.returned = "true"
          THEN /\ \A i \in DOMAIN classes'.enrolledClasses :
                    classes'.enrolledClasses[i]._id # noted'.id
               /\ classes'.enrolledClasses = Others(classes.enrolledClasses, noted'.id)
               /\ noted'.trail = <<"unenrollFromClass">>
               /\ Requests({"getEnrolled", "getAvailable"})'
                    = Requests({"getEnrolled", "getAvailable"})
          ELSE /\ noted'.returned = "false"
               /\ classes'.error # None
               /\ classes'.enrolledClasses = classes.enrolledClasses]_vars

C20_Witness ==
    /\ noted.op = "unenrollFromClass" /\ noted.ends /\ noted.returned = "true"
    /\ noted.id = "c1"
    /\ classes.enrolledClasses = <<[_id |-> "c3"], [_id |-> "c2"]>>

-----------------------------------------------------------------------------
(* The projection card *)

Attended == card.stats.totalAttendedSessions
Held == card.stats.totalHeldSessions
Projected == card.projection # NoProjection
CardCount == card.projection.msg[2]

(* C21, as stated: for attended = 30 and total = 40 with threshold 75 the
   card's getProjection returns the status danger and the number of classes
   needed is ceil((0.75 * 40 - 30) / 0.25). *)
C21_Claim ==
    (Projected /\ Attended = 30 /\ Held = 40) =>
        /\ card.projection.status = "danger"
        /\ card.projection.msg = <<"attend", Ceil(75 * 40 - 30 * 100, 25)>>

(* C21, amended: 30 of 40 is exactly 75%, which meets the threshold, so
   getProjection returns the status warning with no count; whenever the
   attended share is below 75% it returns danger, and the number of classes
   needed is 3 * total - 4 * attended, the value of
   ceil((0.75 * total - attended) / 0.25); 29 of 40 needs 4. *)
C21_Theorem ==
    Projected =>
        /\ (Attended = 30 /\ Held = 40) =>
               card.projection = [status |-> "warning", msg |-> <<"edge">>]
        /\ (4 * Attended < 3 * Held) =>
               card.projection =
                   [status |-> "danger",
                    msg |-> <<"attend", 3 * Held - 4 * Attended>>]
        /\ (Attended = 29 /\ Held = 40) => card.projection.msg = <<"attend", 4>>

C21_Witness ==
    /\ Attended = 30
    /\ Held = 40
    /\ card.projection.status = "warning"

\* (attended + x) / (total + x) >= 75%, in integers
Keeps(attended, total) == 4 * attended >= 3 * total

(* C30: for integers 0 <= attended <= total with total >= 1 and threshold 75
   the counts of getProjection are exact: with the status danger, needed is
   the smallest x >= 0 such that (attended + x) / (total + x) >= 75%; with
   the status safe, buffer is the largest number of further missed classes
   that keeps attended / (total + buffer) >= 75%; and the status is warning
   exactly when that largest number is 0. *)
C30_Theorem ==
    (Projected /\ Held >= 1) =>
        /\ card.projection.status \in {"danger", "safe", "warning"}
        /\ card.projection.status = "danger" =>
              /\ card.projection.msg[1] = "attend"
              /\ CardCount >= 0
              /\ Keeps(Attended + CardCount, Held + CardCount)
              /\ \A x \in 0 .. CardCount - 1 : ~Keeps(Attended + x, Held + x)
        /\ card.projection.status = "safe" =>
              /\ card.projection.msg[1] = "miss"
              /\ CardCount >= 1
              /\ Keeps(Attended, Held + CardCount)
              /\ ~Keeps(Attended, Held + CardCount + 1)
        /\ card.projection.status = "warning" <=>
              (Keeps(Attended, Held) /\ ~Keeps(Attended, Held + 1))

C30_Witness ==
    /\ Held >= 1
    /\ card.projection.status = "safe"
    /\ CardCount >= 2
    /\ (4 * Attended - 3 * Held) % 3 # 0

-----------------------------------------------------------------------------
(* The progress bar of the liveness screen *)

\* the JavaScript number n / d of two counts: Infinity or NaN when d is 0
Quotient(n, d) ==
    [kind |-> IF d # 0 THEN "number" ELSE IF n = 0 THEN "NaN" ELSE "Infinity",
     num |-> n, den |-> d]

\* the render that is on screen contains the ProgressBar:
\* FaceLivenessScreen.tsx lines 282-300 and 353-387, ClassesScreen.tsx line 742
ProgressShown ==
    /\ mounted
    /\ IF variant = "auto"
       THEN auto.screenState \notin {"error", "success", "ready", "submitting"}
       ELSE M_view(manual) = "camera"

\* the progress prop: FaceLivenessScreen.tsx line 381, ClassesScreen.tsx
\* lines 580-582
Progress ==
    IF variant = "auto"
    THEN Quotient(auto.currentIndex + 1, Len(auto.challenges))
    ELSE IF Len(manual.challenges) > 0
         THEN Quotient(manual.currentChallengeIndex
                          + (IF manual.screenState = "success" THEN 1 ELSE 0),
                       Len(manual.challenges))
         ELSE Quotient(0, 1)

(* C22: in every state in which the progress bar is shown, also before any
   challenge list is loaded, the fraction passed to it is a number within
   [0, 1]. *)
C22_Claim ==
    ProgressShown =>
        /\ Progress.kind = "number"
        /\ 0 <= Progress.num
        /\ Progress.num <= Progress.den

-----------------------------------------------------------------------------
(* The QR scan screen *)

(* C23: the scan screen navigates to FaceLiveness only after qr.validate
   returned valid = true for the token of the scanned code, with the classId
   of the response and the scheduleId of the code; a code that is not JSON or
   has no token is never sent to qr.validate and ends in the error status;
   and a scan event that arrives while a scan is being processed is ignored,
   so that at most one validation request is in flight. *)
C23_Navigates ==
    scan'.nav # scan.nav =>
        /\ scan'.last.op \in {"validated", "navigate"}
        /\ scan'.last.response.kind = "ok"
        /\ scan'.last.response.valid
        /\ scan'.last.token = ParseQr(scan'.last.data).token
        /\ scan'.nav = Append(scan.nav,
               [classId |-> scan'.last.response.classId,
                scheduleId |-> ParseQr(scan'.last.data).scheduleId])

C23_Rejects ==
    (/\ scan'.last.op = "scan"
     /\ ~scan'.last.ignored
     /\ \/ ParseQr(scan'.last.data).kind # "object"
        \/ Falsy(ParseQr(scan'.last.data).token)) =>
        /\ ~scan'.last.sent
        /\ ScanPending(scan', "validate") = ScanPending(scan, "validate")
        /\ scan'.scanStatus = "error"

C23_Single ==
    /\ (scan'.last.op = "scan" /\ scan'.last.busy) => scan'.last.ignored
    /\ ScanPending(scan', "validate") <= 1

C23_Claim == [][C23_Navigates /\ C23_Rejects /\ C23_Single]_vars

-----------------------------------------------------------------------------
(* The challenge list and the captured list during an attempt *)

\* the attempt has its challenge list and has not ended
InAttempt == mounted /\ FlowState \in {"ready", "countdown", "capturing", "submitting"}

(* C24: once the challenge list has been fetched for an attempt it is
   immutable: while the attempt is in ready, countdown, capturing or
   submitting no step replaces the list and no step issues another challenge
   request. *)
C24_Claim ==
    [][InAttempt => (Challenges' = Challenges /\ FetchPending' <= FetchPending)]_vars

\* every captured entry has the type of the challenge at its position
InServerOrder ==
    /\ Len(Captured) <= Len(Challenges)
    /\ \A i \in 1 .. Len(Captured) : Captured[i].challengeType = Challenges[i]

\* the step leaves the captured list alone or appends one entry to it
Appended ==
    \/ Captured' = Captured
    \/ /\ Len(Captured') = Len(Captured) + 1
       /\ SubSeq(Captured', 1, Len(Captured)) = Captured

(* C25: every captured entry records the type of the challenge that was
   current when it was captured, in server order (captured[i].challengeType =
   challenges[i].type for all i < captured.length), and during an attempt
   entries are only appended, never reordered, replaced or dropped. *)
C25_Claim ==
    [][/\ InAttempt' => InServerOrder'
       /\ (InAttempt /\ InAttempt') => Appended]_vars

-----------------------------------------------------------------------------
(* The countdown *)

\* the number the countdown shows: the i of runChallengeSequence's loop
\* (setCountdown(i), FaceLivenessScreen.tsx line 147), the countdown state of
\* ClassesScreen.tsx (setCountdown(count), line 447)
CountdownShown ==
    IF variant = "auto"
    THEN LET seqs == {t \in BagToSet(tasks) : t.k = "seq"}
         IN  IF seqs = {} THEN 0
             ELSE (CHOOSE t \in seqs : \A u \in seqs : u.i <= t.i).i
    ELSE manual.countdown

\* while the flow stays in countdown the number shown only goes down
Descending ==
    (mounted /\ FlowState = "countdown" /\ FlowState' = "countdown"
        /\ CountdownShown' # CountdownShown) => CountdownShown' < CountdownShown

(* C26: the countdown is a strictly descending timer; every started countdown
   is eventually followed by the capturing state, and capturing is eventually
   followed by ready or countdown, submitting or error, so that the flow is
   never left in the countdown state (every pending timer fires and every
   awaited device or network call settles). *)
C26_Claim ==
    /\ [][Descending]_vars
    /\ (mounted /\ FlowState = "countdown") ~> (~mounted \/ FlowState = "capturing")
    /\ (mounted /\ FlowState = "capturing")
          ~> (~mounted \/ FlowState \in {"ready", "countdown", "submitting", "error"})

-----------------------------------------------------------------------------
(* The session in memory *)

\* C27: in every reachable state of the session store, whatever login,
\* register, logout, checkAuthState and updateUser did before,
\* isAuthenticated is true exactly when token and user are both non-null
C27_Theorem ==
    session.isAuthenticated <=> (session.token # None /\ session.user # None)

\* an updateUser that was started in a session settles after the logout of
\* that session: the user is back in memory, without a token
C27_Witness ==
    /\ seen.done = {"updateUser"} /\ seen.wrote # <<>>
    /\ ~seen.was
    /\ session.user # None /\ session.token = None
    /\ ~session.isAuthenticated

\* what a checkAuthState would find, lines 109-112: both items are stored
Persisted == ~Falsy(secure.token) /\ ~Falsy(secure.user)

\* every call has ended, checkAuthState included
Settled == calls = EmptyBag /\ ~session.isLoading

\* C28: when a logout was between its awaits while a login, a register or
\* an updateUser was between its own, and no SecureStore call failed, then
\* once every call has ended the store is authenticated exactly when token
\* and user are both persisted
C28_Claim ==
    (seen.overlapped /\ ~seen.threw /\ Settled)
        => (session.isAuthenticated <=> Persisted)

-----------------------------------------------------------------------------
(* The class cache when the session ends *)

\* enrolledClasses, availableClasses and lastUpdated as clearData leaves them
CacheEmpty(s) ==
    s.enrolledClasses = <<>> /\ s.availableClasses = <<>> /\ s.lastUpdated = 0

\* the session is not authenticated and the effect of Navigation has called
\* clearData for it
SignedOutAndCleared == ~session.isAuthenticated /\ Rendered

\* C29: after the session became unauthenticated and clearData has run, the
\* class cache stays empty; stated for the time before the next session, in
\* which no fetch of a new authenticated session can have started: a step
\* from a cleared, signed-out state to a signed-out state leaves the cache
\* empty, also when it is the response of a call started before the logout
C29_Claim ==
    [][(SignedOutAndCleared /\ CacheEmpty(classes) /\ ~session'.isAuthenticated)
          => CacheEmpty(classes')]_vars

====
